---- MODULE Spec2Model ----
(***************************************************************************)
(* Model of the concurrent scanning pipeline of wordfence-go:              *)
(*   - the three-state circuit breaker (internal/scanner/circuitbreaker.go)*)
(*   - the staged pipeline discover -> filter -> read -> match -> report   *)
(*     (PipelineScanner) with its pooled buffers, content-hash             *)
(*     deduplication, cancellation and Shutdown.                           *)
(*   - readFileContent, the discovery walk, the matcher's prefilter, the   *)
(*     token-bucket rate limiter, the resource monitor, the scan ID and    *)
(*     the processed-hash set over several scans, and the vulnerability    *)
(*     index's version comparison (internal/intel).                        *)
(* The specifications share the variables: SpecCB drives the breaker with  *)
(* concurrent callers, Spec drives one scan run of the pipeline, and       *)
(* SpecRead, SpecWalk, SpecMatch, SpecChunks, SpecRL, SpecRM, SpecRuns and *)
(* SpecVuln each drive one of the other components while the rest stands  *)
(* still; SpecCBStores drives the breaker's atomic fields store by store,  *)
(* Reset included.                                                         *)
(***************************************************************************)
EXTENDS Integers, Sequences, FiniteSets, TLC

VARIABLES
    \* ---- circuit breaker (CircuitBreaker struct) and the clock ----
    cb,         \* [state, failures, successes, lastFailureTime]
    now,        \* time.Now(), in ticks
    cpc,        \* per caller: position inside Execute
    cst,        \* per caller: the state loaded by allowRequest
    clf,        \* per caller: the lastFailureTime loaded by allowRequest
    cerr,       \* per caller: the callable's result (TRUE = error)
    cobs,       \* per caller: history of its current call (admission, check time, result)
    log,        \* history: the results recorded by recordResult, in order
    calls,      \* number of Execute calls started (bounded by MaxCalls)
    \* ---- pipeline (PipelineScanner struct and its stage goroutines) ----
    scan,       \* "new" | "admitted" | "running" | "rejected": how far Scan got
    ctxDone,    \* the scan context is cancelled
    shutdown,   \* p.shutdown
    rlClosed,   \* the rate limiter's done channel is closed
    dpc, dnext, \* discover task: position, next file to send
    fpc, fitem, \* filter task: position, item held
    rpc, ritem, \* readers: position, item held
    mpc, mitem, \* matchers: position, item held
    ppc, pheld, pitem, \* report task: position, item held, result held
    chans,      \* the channels' queues: discovered, filtered, read, matched, results
    closed,     \* the channels' closed flags
    processedSet, \* content hashes marked processed
    item,       \* per file: the live FileItem's fields [buf, hash, err, matches]
    pool,       \* the buffer pool's and the context pool's counters
    stats,      \* PipelineStats counters
    failed,     \* history: files whose read failed or was refused
    forwarded,  \* history: per content hash, the number of items sent on the read channel
    received,   \* history: the results the consumer received
    \* ---- the other components, each driven by its own specification ----
    rf,         \* one readFileContent call: its inputs, position and outcome
    wk,         \* one discovery walk: options, link targets, call stack, visited map
    ac,         \* one MatchContext: content, prefilter state, candidates, matches
    rl,         \* one rate limiter: bucket, parked callers, the callers' calls
    rm,         \* one resource monitor: configuration, targets, loop, call history
    sr,         \* one scanner over several scans: scan ID, processed set, counters
    vi,         \* the vulnerability index's version comparison and range test
    mc,         \* match contexts fed in chunks: Aho-Corasick path and regex fallback
    fg          \* the breaker's atomic fields, store by store, with Reset

cbvars == <<cb, now, cpc, cst, clf, cerr, cobs, log, calls>>
plvars == <<scan, ctxDone, shutdown, rlClosed, dpc, dnext, fpc, fitem, rpc, ritem,
            mpc, mitem, ppc, pheld, pitem, chans, closed, processedSet, item, pool, stats,
            failed, forwarded, received>>
xvars == <<rf, wk, ac, rl, rm, sr, vi, mc, fg>>
vars == <<cbvars, plvars, xvars>>

----------------------------------------------------------------------------
\* Bounds of the model
Workers == 2        \* p.options.Workers: readers, matchers; also the breaker's callers
NFiles == 3         \* files found by the walk
bufSize == 1        \* capacity of every channel (the source uses 100)
NHashes == 2        \* distinct file contents
MaxTime == 4        \* the clock stops here
MaxCalls == 5       \* Execute calls in SpecCB
threshold == 2      \* cb.threshold  (T)
timeout == 2        \* cb.timeout    (D), in ticks
halfOpenMax == 2    \* cb.halfOpenMax (S)

\* CircuitState
CircuitClosed == 0
CircuitOpen == 1
CircuitHalfOpen == 2

Tasks == 1..Workers
Files == 1..NFiles
Hashes == 1..NHashes
NoItem == 0

----------------------------------------------------------------------------
\* Circuit breaker

NewCircuitBreaker ==
    [state |-> CircuitClosed, failures |-> 0, successes |-> 0, lastFailureTime |-> 0]

\* time.Since(lastFailure) >= cb.timeout
timeoutElapsedStrict(lf, t) ==
    t - lf > timeout
timeoutElapsed(lf, t) ==
    t - lf >= timeout

\* allowRequest, the section under cb.mu
tryHalfOpen(c) ==
    IF c.state = CircuitOpen
    THEN [c EXCEPT !.state = CircuitHalfOpen, !.successes = 0]
    ELSE c

\* recordResult, the whole critical section under cb.mu
recordResultNoReset(c, err, t) ==
    IF err
    THEN LET c1 == [c EXCEPT !.lastFailureTime = t] IN
         IF c.state = CircuitClosed
         THEN IF c.failures + 1 >= threshold
              THEN [c1 EXCEPT !.state = CircuitOpen, !.failures = 0]
              ELSE [c1 EXCEPT !.failures = c.failures + 1]
         ELSE IF c.state = CircuitHalfOpen
              THEN [c1 EXCEPT !.state = CircuitOpen, !.successes = 0]
              ELSE c1
    ELSE IF c.state = CircuitHalfOpen
         THEN IF c.successes + 1 >= halfOpenMax
              THEN [c EXCEPT !.state = CircuitClosed, !.failures = 0, !.successes = 0]
              ELSE [c EXCEPT !.successes = c.successes + 1]
         ELSE c
recordResultStaleTime(c, err, t) ==
    IF err
    THEN IF c.state = CircuitClosed
         THEN IF c.failures + 1 >= threshold
              THEN [c EXCEPT !.state = CircuitOpen, !.failures = 0, !.lastFailureTime = t]
              ELSE [c EXCEPT !.failures = c.failures + 1, !.lastFailureTime = t]
         ELSE IF c.state = CircuitHalfOpen
              THEN [c EXCEPT !.state = CircuitOpen, !.successes = 0]
              ELSE [c EXCEPT !.lastFailureTime = t]
    ELSE IF c.state = CircuitClosed
         THEN [c EXCEPT !.failures = 0]
         ELSE IF c.state = CircuitHalfOpen
              THEN IF c.successes + 1 >= halfOpenMax
                   THEN [c EXCEPT !.state = CircuitClosed, !.failures = 0, !.successes = 0]
                   ELSE [c EXCEPT !.successes = c.successes + 1]
              ELSE c
recordResult(c, err, t) ==
    IF err
    THEN LET c1 == [c EXCEPT !.lastFailureTime = t] IN
         IF c.state = CircuitClosed
         THEN IF c.failures + 1 >= threshold
              THEN [c1 EXCEPT !.state = CircuitOpen, !.failures = 0]
              ELSE [c1 EXCEPT !.failures = c.failures + 1]
         ELSE IF c.state = CircuitHalfOpen
              THEN [c1 EXCEPT !.state = CircuitOpen, !.successes = 0]
              ELSE c1
    ELSE IF c.state = CircuitClosed
         THEN [c EXCEPT !.failures = 0]
         ELSE IF c.state = CircuitHalfOpen
              THEN IF c.successes + 1 >= halfOpenMax
                   THEN [c EXCEPT !.state = CircuitClosed, !.failures = 0, !.successes = 0]
                   ELSE [c EXCEPT !.successes = c.successes + 1]
              ELSE c

NoObs ==
    [started |-> FALSE, viaOpen |-> FALSE, checked |-> FALSE, admitted |-> FALSE,
     invoked |-> FALSE, result |-> "none", chkAt |-> 0, chkLf |-> 0]

\* Execute, first step: allowRequest loads cb.state; closed and half-open admit
CBLoadState(t) ==
    /\ cpc[t] = "idle"
    /\ calls < MaxCalls
    /\ calls' = calls + 1
    /\ cst' = [cst EXCEPT ![t] = cb.state]
    /\ IF cb.state = CircuitOpen
       THEN /\ cpc' = [cpc EXCEPT ![t] = "loadLF"]
            /\ cobs' = [cobs EXCEPT ![t] = [NoObs EXCEPT !.started = TRUE, !.viaOpen = TRUE]]
       ELSE /\ cpc' = [cpc EXCEPT ![t] = "fn"]
            /\ cobs' = [cobs EXCEPT ![t] = [NoObs EXCEPT !.started = TRUE, !.admitted = TRUE]]
    /\ UNCHANGED <<cb, now, clf, cerr, log>>

\* allowRequest, open state: load cb.lastFailureTime
CBLoadLastFailure(t) ==
    /\ cpc[t] = "loadLF"
    /\ clf' = [clf EXCEPT ![t] = cb.lastFailureTime]
    /\ cpc' = [cpc EXCEPT ![t] = "check"]
    /\ UNCHANGED <<cb, now, cst, cerr, cobs, log, calls>>

\* allowRequest, open state: time.Since(lastFailure) >= cb.timeout, else Execute
\* returns ErrCircuitOpen without calling fn
CBCheckTimeout(t) ==
    /\ cpc[t] = "check"
    /\ IF timeoutElapsed(clf[t], now)
       THEN /\ cpc' = [cpc EXCEPT ![t] = "lock"]
            /\ cobs' = [cobs EXCEPT ![t].checked = TRUE, ![t].chkAt = now,
                                    ![t].chkLf = clf[t]]
       ELSE /\ cpc' = [cpc EXCEPT ![t] = "idle"]
            /\ cobs' = [cobs EXCEPT ![t].checked = TRUE, ![t].chkAt = now,
                                    ![t].chkLf = clf[t], ![t].result = "circuit-open"]
    /\ UNCHANGED <<cb, now, cst, clf, cerr, log, calls>>

\* allowRequest, open state: lock, move to half-open if still open, unlock, admit
CBTryHalfOpen(t) ==
    /\ cpc[t] = "lock"
    /\ cb' = tryHalfOpen(cb)
    /\ cpc' = [cpc EXCEPT ![t] = "fn"]
    /\ cobs' = [cobs EXCEPT ![t].admitted = TRUE]
    /\ UNCHANGED <<now, cst, clf, cerr, log, calls>>

\* Execute: err := fn()
CBCallFn(t) ==
    /\ cpc[t] = "fn"
    /\ \E e \in BOOLEAN : cerr' = [cerr EXCEPT ![t] = e]
    /\ cpc' = [cpc EXCEPT ![t] = "record"]
    /\ cobs' = [cobs EXCEPT ![t].invoked = TRUE]
    /\ UNCHANGED <<cb, now, cst, clf, log, calls>>

\* Execute: cb.recordResult(err); return err
CBRecordResult(t) ==
    /\ cpc[t] = "record"
    /\ cb' = recordResult(cb, cerr[t], now)
    /\ log' = Append(log, [st |-> cb.state, err |-> cerr[t], at |-> now])
    /\ cpc' = [cpc EXCEPT ![t] = "idle"]
    /\ cobs' = [cobs EXCEPT ![t].result = IF cerr[t] THEN "error" ELSE "nil"]
    /\ UNCHANGED <<now, cst, clf, cerr, calls>>

\* the clock advances
Tick ==
    /\ now < MaxTime
    /\ now' = now + 1
    /\ UNCHANGED <<cb, cpc, cst, clf, cerr, cobs, log, calls>>

InitCBVars ==
    /\ cb = NewCircuitBreaker
    /\ now = 0
    /\ cpc = [t \in Tasks |-> "idle"]
    /\ cst = [t \in Tasks |-> CircuitClosed]
    /\ clf = [t \in Tasks |-> 0]
    /\ cerr = [t \in Tasks |-> FALSE]
    /\ cobs = [t \in Tasks |-> NoObs]
    /\ log = <<>>
    /\ calls = 0

----------------------------------------------------------------------------
\* Pipeline: items, buffers, channels

\* FileItem as created by sendDiscovered: no content, no error
NewFileItem ==
    [buf |-> FALSE, hash |-> 0, err |-> "none", matches |-> FALSE]

NewStats ==
    [Discovered |-> 0, Filtered |-> 0, Read |-> 0, Matched |-> 0, Reported |-> 0,
     FilesWithMatches |-> 0, FilesSkipped |-> 0, FilesErrored |-> 0,
     CircuitBreaks |-> 0, RateLimitWaits |-> 0, DuplicatesSkipped |-> 0]

\* p.bufferPool.GetForSize(size); item.Content, item.ContentPool set
getBuffer(st, i) ==
    [item |-> [st.item EXCEPT ![i].buf = TRUE],
     pool |-> [st.pool EXCEPT !.gets = @ + 1]]

\* an item no stage holds any more (dropped by continue / return)
drop(st, i) ==
    [item |-> [st.item EXCEPT ![i] = NewFileItem], pool |-> st.pool]

\* returnBuffer: PutForSize and clear item.Content when the item holds a buffer
returnBufferLeak(st, i) ==
    [item |-> [st.item EXCEPT ![i].buf = FALSE], pool |-> st.pool]
returnBuffer(st, i) ==
    IF st.item[i].buf
    THEN [item |-> [st.item EXCEPT ![i].buf = FALSE],
          pool |-> [st.pool EXCEPT !.puts = @ + 1]]
    ELSE st

cur ==
    [item |-> item, pool |-> pool]

\* readFileContent: open error, read error (buffer taken and returned), or content read
readFileContent(st, i, outcome, h) ==
    IF outcome = "open-fail"
    THEN [item |-> [st.item EXCEPT ![i].err = "file-access"], pool |-> st.pool]
    ELSE IF outcome = "read-fail"
         THEN LET s1 == returnBuffer(getBuffer(st, i), i) IN
              [item |-> [s1.item EXCEPT ![i].err = "file-read"], pool |-> s1.pool]
         ELSE LET s1 == getBuffer(st, i) IN
              [item |-> [s1.item EXCEPT ![i].hash = h], pool |-> s1.pool]

\* allowRequest run to its end by one caller: [ok, cb]
allowRequest(c, t) ==
    IF c.state = CircuitOpen
    THEN IF timeoutElapsed(c.lastFailureTime, t)
         THEN [ok |-> TRUE, cb |-> tryHalfOpen(c)]
         ELSE [ok |-> FALSE, cb |-> c]
    ELSE [ok |-> TRUE, cb |-> c]

full(q) ==
    Len(q) >= bufSize

incButRead(st, f) ==
    [st EXCEPT ![f] = IF f = "Read" THEN @ ELSE @ + 1]
incButDuplicates(st, f) ==
    [st EXCEPT ![f] = IF f = "DuplicatesSkipped" THEN @ ELSE @ + 1]
inc(st, f) ==
    [st EXCEPT ![f] = @ + 1]

\* p.wg has drained: every stage task has returned
StageTasksDone ==
    /\ dpc = "done"
    /\ fpc = "done"
    /\ \A w \in Tasks : rpc[w] = "done" /\ mpc[w] = "done"
    /\ ppc = "done"

\* what Shutdown's final select returns: nil once p.wg has drained, the timeout's
\* error if the caller's context ends first
ShutdownResult ==
    IF scan # "running" \/ StageTasksDone THEN "nil" ELSE "timeout"

----------------------------------------------------------------------------
\* Scan, the check of p.shutdown under shutdownMu: rejected when shut down
Scan ==
    /\ scan = "new"
    /\ scan' = IF shutdown THEN "rejected" ELSE "admitted"
    /\ UNCHANGED <<xvars, cbvars, ctxDone, shutdown, rlClosed, dpc, dnext, fpc, fitem, rpc,
                   ritem, mpc, mitem, ppc, pheld, pitem, chans, closed, processedSet, item, pool,
                   stats, failed, forwarded, received>>

\* Scan past the check: scan ID, monitor, stats, the channels and the stage tasks
ScanStart ==
    /\ scan = "admitted"
    /\ scan' = "running"
    /\ UNCHANGED <<xvars, cbvars, ctxDone, shutdown, rlClosed, dpc, dnext, fpc, fitem, rpc,
                   ritem, mpc, mitem, ppc, pheld, pitem, chans, closed, processedSet, item, pool,
                   stats, failed, forwarded, received>>

\* the caller cancels the scan context
Cancel ==
    /\ ~ctxDone
    /\ ctxDone' = TRUE
    /\ UNCHANGED <<xvars, cbvars, scan, shutdown, rlClosed, dpc, dnext, fpc, fitem, rpc,
                   ritem, mpc, mitem, ppc, pheld, pitem, chans, closed, processedSet, item, pool,
                   stats, failed, forwarded, received>>

\* Shutdown: set p.shutdown, close done, close the rate limiter; what follows only
\* waits for p.wg (see ShutdownResult). A second call finds p.shutdown set and returns.
Shutdown ==
    /\ ~shutdown
    /\ shutdown' = TRUE
    /\ rlClosed' = TRUE
    /\ UNCHANGED <<xvars, cbvars, scan, ctxDone, dpc, dnext, fpc, fitem, rpc,
                   ritem, mpc, mitem, ppc, pheld, pitem, chans, closed, processedSet, item, pool,
                   stats, failed, forwarded, received>>

----------------------------------------------------------------------------
\* discover stage

\* loop head / WalkDir callback: stop on shutdown, cancel or end of walk (closing
\* discovered), else sendDiscovered counts the file
DiscoverWalk ==
    /\ scan = "running"
    /\ dpc = "walk"
    /\ IF shutdown \/ ctxDone \/ dnext > NFiles
       THEN /\ dpc' = "done"
            /\ closed' = [closed EXCEPT !.d = TRUE]
            /\ UNCHANGED stats
       ELSE /\ dpc' = "send"
            /\ stats' = inc(stats, "Discovered")
            /\ UNCHANGED closed
    /\ UNCHANGED <<xvars, cbvars, scan, ctxDone, shutdown, rlClosed, dnext, fpc, fitem, rpc,
                   ritem, mpc, mitem, ppc, pheld, pitem, chans, processedSet, item, pool,
                   failed, forwarded, received>>

\* sendDiscovered: select { ctx.Done: drop; discovered <- item }
DiscoverSend ==
    /\ dpc = "send"
    /\ \/ /\ ctxDone
          /\ UNCHANGED chans
       \/ /\ ~full(chans.d)
          /\ chans' = [chans EXCEPT !.d = Append(@, dnext)]
    /\ dnext' = dnext + 1
    /\ dpc' = "walk"
    /\ UNCHANGED <<xvars, cbvars, scan, ctxDone, shutdown, rlClosed, fpc, fitem, rpc,
                   ritem, mpc, mitem, ppc, pheld, pitem, closed, processedSet, item, pool,
                   stats, failed, forwarded, received>>

----------------------------------------------------------------------------
\* filter stage

\* for item := range p.discovered: receive, or stop (closing filtered) at end of stream
FilterRecv ==
    /\ scan = "running"
    /\ fpc = "recv"
    /\ \/ /\ chans.d = <<>> /\ closed.d
          /\ fpc' = "done"
          /\ closed' = [closed EXCEPT !.f = TRUE]
          /\ UNCHANGED <<chans, fitem>>
       \/ /\ chans.d # <<>>
          /\ chans' = [chans EXCEPT !.d = Tail(@)]
          /\ fitem' = Head(chans.d)
          /\ fpc' = "check"
          /\ UNCHANGED closed
    /\ UNCHANGED <<xvars, cbvars, scan, ctxDone, shutdown, rlClosed, dpc, dnext, rpc,
                   ritem, mpc, mitem, ppc, pheld, pitem, processedSet, item, pool,
                   stats, failed, forwarded, received>>

\* isShutdown / ctx checks (return closes filtered), then the filter and the size limit
FilterCheck ==
    /\ fpc = "check"
    /\ LET i == fitem IN
       IF shutdown \/ ctxDone
       THEN /\ fpc' = "done"
            /\ fitem' = NoItem
            /\ closed' = [closed EXCEPT !.f = TRUE]
            /\ UNCHANGED <<item, stats>>
       ELSE \E v \in {"pass", "reject", "too-large"} :
              /\ UNCHANGED closed
              /\ IF v = "pass"
                 THEN /\ stats' = inc(stats, "Filtered")
                      /\ fpc' = "send"
                      /\ UNCHANGED <<item, fitem>>
                 ELSE /\ stats' = inc(stats, "FilesSkipped")
                      /\ item' = drop([item |-> IF v = "too-large"
                                                THEN [item EXCEPT ![i].err = "file-too-large"]
                                                ELSE item,
                                       pool |-> pool], i).item
                      /\ fitem' = NoItem
                      /\ fpc' = "recv"
    /\ UNCHANGED <<xvars, cbvars, scan, ctxDone, shutdown, rlClosed, dpc, dnext, rpc,
                   ritem, mpc, mitem, ppc, pheld, pitem, chans, processedSet, pool,
                   failed, forwarded, received>>

\* select { ctx.Done: return; filtered <- item }
FilterSend ==
    /\ fpc = "send"
    /\ \/ /\ ctxDone
          /\ fpc' = "done"
          /\ closed' = [closed EXCEPT !.f = TRUE]
          /\ UNCHANGED chans
       \/ /\ ~full(chans.f)
          /\ chans' = [chans EXCEPT !.f = Append(@, fitem)]
          /\ fpc' = "recv"
          /\ UNCHANGED closed
    /\ fitem' = NoItem
    /\ UNCHANGED <<xvars, cbvars, scan, ctxDone, shutdown, rlClosed, dpc, dnext, rpc,
                   ritem, mpc, mitem, ppc, pheld, pitem, processedSet, item, pool,
                   stats, failed, forwarded, received>>

----------------------------------------------------------------------------
\* read stage (Workers readers)

\* for item := range p.filtered: receive, or stop at end of stream
ReadRecv(w) ==
    /\ scan = "running"
    /\ rpc[w] = "recv"
    /\ \/ /\ chans.f = <<>> /\ closed.f
          /\ rpc' = [rpc EXCEPT ![w] = "done"]
          /\ UNCHANGED <<chans, ritem>>
       \/ /\ chans.f # <<>>
          /\ chans' = [chans EXCEPT !.f = Tail(@)]
          /\ rpc' = [rpc EXCEPT ![w] = "check"]
          /\ ritem' = [ritem EXCEPT ![w] = Head(chans.f)]
    /\ UNCHANGED <<xvars, cbvars, scan, ctxDone, shutdown, rlClosed, dpc, dnext, fpc, fitem,
                   mpc, mitem, ppc, pheld, pitem, closed, processedSet, item, pool,
                   stats, failed, forwarded, received>>

\* isShutdown / ctx checks at the head of the loop body
ReadCheck(w) ==
    /\ rpc[w] = "check"
    /\ IF shutdown \/ ctxDone
       THEN /\ rpc' = [rpc EXCEPT ![w] = "done"]
            /\ ritem' = [ritem EXCEPT ![w] = NoItem]
       ELSE /\ rpc' = [rpc EXCEPT ![w] = "exec"]
            /\ UNCHANGED ritem
    /\ UNCHANGED <<xvars, cbvars, scan, ctxDone, shutdown, rlClosed, dpc, dnext, fpc, fitem,
                   mpc, mitem, ppc, pheld, pitem, chans, closed, processedSet, item, pool,
                   stats, failed, forwarded, received>>

\* an item that carries an error is counted and not forwarded (continue)
readFailed(w, st, c, kind, counters) ==
    LET i == ritem[w]
        s1 == drop([item |-> [st.item EXCEPT ![i].err = kind], pool |-> st.pool], i)
    IN /\ item' = s1.item
       /\ pool' = s1.pool
       /\ cb' = c
       /\ failed' = failed \cup {i}
       /\ stats' = counters
       /\ rpc' = [rpc EXCEPT ![w] = "recv"]
       /\ ritem' = [ritem EXCEPT ![w] = NoItem]

\* rateLimiter.WaitForBytes (fails on cancel or on a closed limiter), the dynamic
\* delay (returns on cancel), p.circuit.Execute(readFileContent) and the error
\* handling that follows it
ReadExecute(w) ==
    /\ rpc[w] = "exec"
    /\ LET i == ritem[w]
           a == allowRequest(cb, now)
       IN \/ /\ ctxDone \/ rlClosed
             /\ readFailed(w, cur, cb, "rate-limited",
                           inc(inc(stats, "FilesErrored"), "RateLimitWaits"))
          \/ /\ ctxDone
             /\ rpc' = [rpc EXCEPT ![w] = "done"]
             /\ ritem' = [ritem EXCEPT ![w] = NoItem]
             /\ item' = drop(cur, i).item
             /\ UNCHANGED <<cb, pool, stats, failed>>
          \/ /\ ~a.ok
             /\ readFailed(w, cur, a.cb, "circuit-open",
                           inc(inc(stats, "FilesErrored"), "CircuitBreaks"))
          \/ /\ a.ok
             /\ \E outcome \in {"open-fail", "read-fail"} :
                  readFailed(w, readFileContent(cur, i, outcome, 0),
                             recordResult(a.cb, TRUE, now),
                             IF outcome = "open-fail" THEN "file-access" ELSE "file-read",
                             inc(stats, "FilesErrored"))
          \/ /\ a.ok
             /\ \E h \in Hashes :
                  LET s1 == readFileContent(cur, i, "ok", h) IN
                  /\ item' = s1.item
                  /\ pool' = s1.pool
             /\ cb' = recordResult(a.cb, FALSE, now)
             /\ rpc' = [rpc EXCEPT ![w] = "dedup"]
             /\ UNCHANGED <<stats, ritem, failed>>
    /\ UNCHANGED <<xvars, now, cpc, cst, clf, cerr, cobs, log, calls,
                   scan, ctxDone, shutdown, rlClosed, dpc, dnext, fpc, fitem,
                   mpc, mitem, ppc, pheld, pitem, chans, closed, processedSet,
                   forwarded, received>>

\* isDuplicate(hash): read of processedSet under the read lock
isDuplicate(h) ==
    h \in processedSet

\* content hash computed, then the duplicate check
ReadDedup(w) ==
    /\ rpc[w] = "dedup"
    /\ LET i == ritem[w] IN
       IF isDuplicate(item[i].hash)
       THEN /\ stats' = inc(stats, "DuplicatesSkipped")
            /\ LET s1 == drop(returnBuffer(cur, i), i) IN
               /\ item' = s1.item
               /\ pool' = s1.pool
            /\ rpc' = [rpc EXCEPT ![w] = "recv"]
            /\ ritem' = [ritem EXCEPT ![w] = NoItem]
       ELSE /\ rpc' = [rpc EXCEPT ![w] = "mark"]
            /\ UNCHANGED <<stats, item, pool, ritem>>
    /\ UNCHANGED <<xvars, cbvars, scan, ctxDone, shutdown, rlClosed, dpc, dnext, fpc, fitem,
                   mpc, mitem, ppc, pheld, pitem, chans, closed, processedSet,
                   failed, forwarded, received>>

\* markProcessed(hash) under the write lock, then the Read counter
ReadMark(w) ==
    /\ rpc[w] = "mark"
    /\ processedSet' = processedSet \cup {item[ritem[w]].hash}
    /\ stats' = inc(stats, "Read")
    /\ rpc' = [rpc EXCEPT ![w] = "send"]
    /\ UNCHANGED <<xvars, cbvars, scan, ctxDone, shutdown, rlClosed, dpc, dnext, fpc, fitem,
                   ritem, mpc, mitem, ppc, pheld, pitem, chans, closed, item, pool,
                   failed, forwarded, received>>

\* select { ctx.Done: returnBuffer, return; read <- item }
ReadSend(w) ==
    /\ rpc[w] = "send"
    /\ \/ /\ ctxDone
          /\ LET s1 == drop(returnBuffer(cur, ritem[w]), ritem[w]) IN
             /\ item' = s1.item
             /\ pool' = s1.pool
          /\ rpc' = [rpc EXCEPT ![w] = "done"]
          /\ UNCHANGED <<chans, forwarded>>
       \/ /\ ~full(chans.r)
          /\ chans' = [chans EXCEPT !.r = Append(@, ritem[w])]
          /\ forwarded' = [forwarded EXCEPT ![item[ritem[w]].hash] = @ + 1]
          /\ rpc' = [rpc EXCEPT ![w] = "recv"]
          /\ UNCHANGED <<item, pool>>
    /\ ritem' = [ritem EXCEPT ![w] = NoItem]
    /\ UNCHANGED <<xvars, cbvars, scan, ctxDone, shutdown, rlClosed, dpc, dnext, fpc, fitem,
                   mpc, mitem, ppc, pheld, pitem, closed, processedSet, stats, failed, received>>

\* readWg.Wait(); close(p.read)
CloseRead ==
    /\ scan = "running"
    /\ ~closed.r
    /\ \A w \in Tasks : rpc[w] = "done"
    /\ closed' = [closed EXCEPT !.r = TRUE]
    /\ UNCHANGED <<xvars, cbvars, scan, ctxDone, shutdown, rlClosed, dpc, dnext, fpc, fitem,
                   rpc, ritem, mpc, mitem, ppc, pheld, pitem, chans, processedSet, item, pool,
                   stats, failed, forwarded, received>>

----------------------------------------------------------------------------
\* match stage (Workers matchers)

\* for item := range p.read: receive, or stop at end of stream
MatchRecv(w) ==
    /\ scan = "running"
    /\ mpc[w] = "recv"
    /\ \/ /\ chans.r = <<>> /\ closed.r
          /\ mpc' = [mpc EXCEPT ![w] = "done"]
          /\ UNCHANGED <<chans, mitem>>
       \/ /\ chans.r # <<>>
          /\ chans' = [chans EXCEPT !.r = Tail(@)]
          /\ mpc' = [mpc EXCEPT ![w] = "match"]
          /\ mitem' = [mitem EXCEPT ![w] = Head(chans.r)]
    /\ UNCHANGED <<xvars, cbvars, scan, ctxDone, shutdown, rlClosed, dpc, dnext, fpc, fitem,
                   rpc, ritem, ppc, pheld, pitem, closed, processedSet, item, pool,
                   stats, failed, forwarded, received>>

\* the signature set matches some contents and not others; the verdict is a
\* function of the content
matchResult(h) ==
    h = 1

\* NewMatchContext takes a context from the matcher's context pool
NewMatchContext(st) ==
    [item |-> st.item, pool |-> [st.pool EXCEPT !.ctxGets = @ + 1]]

\* isShutdown / ctx checks and the dynamic delay (each returns the buffer and stops),
\* else NewMatchContext, Match, returnBuffer and the counters; the stage does not
\* call Release
MatchRun(w) ==
    /\ mpc[w] = "match"
    /\ LET i == mitem[w] IN
       IF shutdown \/ ctxDone
       THEN /\ LET s1 == drop(returnBuffer(cur, i), i) IN
               /\ item' = s1.item
               /\ pool' = s1.pool
            /\ mpc' = [mpc EXCEPT ![w] = "done"]
            /\ mitem' = [mitem EXCEPT ![w] = NoItem]
            /\ UNCHANGED stats
       ELSE LET hit == matchResult(item[i].hash) IN
            /\ LET s1 == returnBuffer(NewMatchContext(cur), i) IN
               /\ item' = [s1.item EXCEPT ![i].matches = hit]
               /\ pool' = s1.pool
            /\ stats' = IF hit THEN inc(inc(stats, "FilesWithMatches"), "Matched")
                               ELSE inc(stats, "Matched")
            /\ mpc' = [mpc EXCEPT ![w] = "send"]
            /\ UNCHANGED mitem
    /\ UNCHANGED <<xvars, cbvars, scan, ctxDone, shutdown, rlClosed, dpc, dnext, fpc, fitem,
                   rpc, ritem, ppc, pheld, pitem, chans, closed, processedSet,
                   failed, forwarded, received>>

\* select { ctx.Done: return; matched <- item }
MatchSend(w) ==
    /\ mpc[w] = "send"
    /\ \/ /\ ctxDone
          /\ mpc' = [mpc EXCEPT ![w] = "done"]
          /\ item' = drop(cur, mitem[w]).item
          /\ UNCHANGED chans
       \/ /\ ~full(chans.m)
          /\ chans' = [chans EXCEPT !.m = Append(@, mitem[w])]
          /\ mpc' = [mpc EXCEPT ![w] = "recv"]
          /\ UNCHANGED item
    /\ mitem' = [mitem EXCEPT ![w] = NoItem]
    /\ UNCHANGED <<xvars, cbvars, scan, ctxDone, shutdown, rlClosed, dpc, dnext, fpc, fitem,
                   rpc, ritem, ppc, pheld, pitem, closed, processedSet, pool,
                   stats, failed, forwarded, received>>

\* matchWg.Wait(); close(p.matched)
CloseMatched ==
    /\ scan = "running"
    /\ ~closed.m
    /\ \A w \in Tasks : mpc[w] = "done"
    /\ closed' = [closed EXCEPT !.m = TRUE]
    /\ UNCHANGED <<xvars, cbvars, scan, ctxDone, shutdown, rlClosed, dpc, dnext, fpc, fitem,
                   rpc, ritem, mpc, mitem, ppc, pheld, pitem, chans, processedSet, item, pool,
                   stats, failed, forwarded, received>>

----------------------------------------------------------------------------
\* report stage and the consumer of the result channel

\* the ScanResult built from an item
ScanResult(i) ==
    [path |-> i, err |-> item[i].err, matches |-> item[i].matches]

NoResult ==
    [path |-> NoItem, err |-> "none", matches |-> FALSE]

\* for item := range p.matched: receive, or stop (closing results) at end of stream
ReportRecv ==
    /\ scan = "running"
    /\ ppc = "recv"
    /\ \/ /\ chans.m = <<>> /\ closed.m
          /\ ppc' = "done"
          /\ closed' = [closed EXCEPT !.res = TRUE]
          /\ UNCHANGED <<chans, pheld>>
       \/ /\ chans.m # <<>>
          /\ chans' = [chans EXCEPT !.m = Tail(@)]
          /\ pheld' = Head(chans.m)
          /\ ppc' = "check"
          /\ UNCHANGED closed
    /\ UNCHANGED <<xvars, cbvars, scan, ctxDone, shutdown, rlClosed, dpc, dnext, fpc, fitem,
                   rpc, ritem, mpc, mitem, pitem, processedSet, item, pool,
                   stats, failed, forwarded, received>>

\* isShutdown check (return closes results), else build the ScanResult and count it
ReportCheck ==
    /\ ppc = "check"
    /\ item' = drop(cur, pheld).item
    /\ pheld' = NoItem
    /\ IF shutdown
       THEN /\ ppc' = "done"
            /\ closed' = [closed EXCEPT !.res = TRUE]
            /\ UNCHANGED <<pitem, stats>>
       ELSE /\ ppc' = "send"
            /\ pitem' = ScanResult(pheld)
            /\ stats' = inc(stats, "Reported")
            /\ UNCHANGED closed
    /\ UNCHANGED <<xvars, cbvars, scan, ctxDone, shutdown, rlClosed, dpc, dnext, fpc, fitem,
                   rpc, ritem, mpc, mitem, chans, processedSet, pool,
                   failed, forwarded, received>>

\* select { ctx.Done: return; results <- result }
ReportSend ==
    /\ ppc = "send"
    /\ \/ /\ ctxDone
          /\ ppc' = "done"
          /\ closed' = [closed EXCEPT !.res = TRUE]
          /\ UNCHANGED chans
       \/ /\ ~full(chans.res)
          /\ chans' = [chans EXCEPT !.res = Append(@, pitem)]
          /\ ppc' = "recv"
          /\ UNCHANGED closed
    /\ pitem' = NoResult
    /\ UNCHANGED pheld
    /\ UNCHANGED <<xvars, cbvars, scan, ctxDone, shutdown, rlClosed, dpc, dnext, fpc, fitem,
                   rpc, ritem, mpc, mitem, processedSet, item, pool,
                   stats, failed, forwarded, received>>

\* the caller receives one result
ConsumerRecv ==
    /\ chans.res # <<>>
    /\ chans' = [chans EXCEPT !.res = Tail(@)]
    /\ received' = received \cup {Head(chans.res)}
    /\ UNCHANGED <<xvars, cbvars, scan, ctxDone, shutdown, rlClosed, dpc, dnext, fpc, fitem,
                   rpc, ritem, mpc, mitem, ppc, pheld, pitem, closed, processedSet, item, pool,
                   stats, failed, forwarded>>

----------------------------------------------------------------------------
InitPLVars ==
    /\ scan = "new"
    /\ ctxDone = FALSE
    /\ shutdown = FALSE
    /\ rlClosed = FALSE
    /\ dpc = "walk"
    /\ dnext = 1
    /\ fpc = "recv"
    /\ fitem = NoItem
    /\ rpc = [w \in Tasks |-> "recv"]
    /\ ritem = [w \in Tasks |-> NoItem]
    /\ mpc = [w \in Tasks |-> "recv"]
    /\ mitem = [w \in Tasks |-> NoItem]
    /\ ppc = "recv"
    /\ pheld = NoItem
    /\ pitem = NoResult
    /\ chans = [d |-> <<>>, f |-> <<>>, r |-> <<>>, m |-> <<>>, res |-> <<>>]
    /\ closed = [d |-> FALSE, f |-> FALSE, r |-> FALSE, m |-> FALSE, res |-> FALSE]
    /\ processedSet = {}
    /\ item = [i \in Files |-> NewFileItem]
    /\ pool = [gets |-> 0, puts |-> 0, ctxGets |-> 0, ctxPuts |-> 0]
    /\ stats = NewStats
    /\ failed = {}
    /\ forwarded = [h \in Hashes |-> 0]
    /\ received = {}

----------------------------------------------------------------------------
\* readFileContent and the tiered ContentPool: sizes in bytes

\* NewContentPool: the three tiers
smallSize == 4 * 1024
mediumSize == 64 * 1024
largeSize == 1024 * 1024

\* sizes at and around the tier boundaries
FileSizes ==
    {0, 1, smallSize, smallSize + 1, mediumSize, mediumSize + 1, largeSize,
     largeSize + 1, 2 * largeSize}

\* p.options.ContentLimit: 0 is "not set"
ContentLimits ==
    {0, smallSize, mediumSize + 1, largeSize, 2 * largeSize}

\* GetForSize: the length (= capacity) of the buffer handed out for a request
GetForSize(size) ==
    IF size <= smallSize THEN smallSize
    ELSE IF size <= mediumSize THEN mediumSize
    ELSE largeSize

\* the filter stage's size check: what it lets through to the read stage
filterAdmits(size, limit) ==
    ~(limit > 0 /\ size > limit)

\* readFileContent: size := item.Info.Size(), capped by a set ContentLimit
readSize(size, limit) ==
    IF limit > 0 /\ size > limit THEN limit ELSE size

\* io.ReadFull into a slice of `want` bytes with `avail` bytes left in the file
ReadFull(avail, want) ==
    IF avail < want THEN avail ELSE want

\* one file on its way through the stages: the item's fields and the counters
NoRead ==
    [pc |-> "idle", size |-> 0, limit |-> 0, avail |-> 0, cap |-> 0, n |-> 0,
     err |-> "none", content |-> 0, skipped |-> 0, emitted |-> FALSE, scanned |-> 0]

\* the filter stage's loop body on a discovered file: the path filter, then the
\* size check; a file that fails either is counted in FilesSkipped and dropped
\* (continue), the others are sent on to the read stage
RFFilter ==
    /\ rf.pc = "idle"
    /\ \E size \in FileSizes, limit \in ContentLimits, pathOk \in BOOLEAN :
          LET r == [NoRead EXCEPT !.size = size, !.limit = limit] IN
          IF ~pathOk
          THEN rf' = [r EXCEPT !.pc = "skipped", !.skipped = 1]
          ELSE IF ~filterAdmits(size, limit)
          THEN rf' = [r EXCEPT !.pc = "skipped", !.skipped = 1,
                               !.err = "file-too-large"]
          ELSE rf' = [r EXCEPT !.pc = "filtered"]

\* os.Open succeeded on a file the filter admitted; avail is what the file holds
\* when it is read (it may have shrunk since the walk)
RFOpen ==
    /\ rf.pc = "filtered"
    /\ \E avail \in {0, rf.size \div 2, rf.size} :
          rf' = [rf EXCEPT !.pc = "get", !.avail = avail]

\* item.Content = p.bufferPool.GetForSize(size)
RFGetBuffer ==
    /\ rf.pc = "get"
    /\ rf' = [rf EXCEPT !.pc = "read", !.cap = GetForSize(readSize(rf.size, rf.limit))]

\* io.ReadFull(file, item.Content[:size]): the slice expression faults when size
\* exceeds the buffer's capacity; a read error returns the buffer; else the content
\* is trimmed to the n bytes read
RFRead ==
    /\ rf.pc = "read"
    /\ LET want == readSize(rf.size, rf.limit) IN
       IF want > rf.cap
       THEN rf' = [rf EXCEPT !.pc = "panic"]
       ELSE \/ rf' = [rf EXCEPT !.pc = "done", !.n = ReadFull(rf.avail, want),
                                !.content = ReadFull(rf.avail, want)]
            \/ rf' = [rf EXCEPT !.pc = "error", !.err = "file-read"]

\* the match stage's loop body: Match(ctx, item.Content), then returnBuffer, which
\* puts the buffer back and sets item.Content to nil
RFMatch ==
    /\ rf.pc = "done"
    /\ rf' = [rf EXCEPT !.pc = "matched", !.content = 0]

\* the report stage's loop body: ScannedBytes: int64(len(item.Content)), and the
\* result is sent
RFReport ==
    /\ rf.pc = "matched"
    /\ rf' = [rf EXCEPT !.pc = "reported", !.scanned = rf.content, !.emitted = TRUE]

\* the stages go on to the next file
RFNext ==
    /\ rf.pc \in {"skipped", "error", "reported"}
    /\ rf' = NoRead

----------------------------------------------------------------------------
\* walkDirectory: discovery over a tree with symlinks

MaxNest == 4        \* nested walkDirectory calls the model follows

\* the tree: D1 holds F1, the link L1 and the directory D2; D2 holds F2 and the link L2
Dirs == {"D1", "D2"}
WalkFiles == {"F1", "F2"}
Links == {"L1", "L2"}

\* what a link may resolve to; "broken" fails EvalSymlinks
Targets == Dirs \cup WalkFiles \cup {"broken"}

\* os.ReadDir order of a directory
children(d) ==
    IF d = "D1" THEN <<"F1", "L1", "D2">> ELSE <<"F2", "L2">>

\* the root paths given to Scan, in order: "X" may not exist, "F3" is a file
Roots == <<"X", "D1", "F3">>

NoWalk ==
    [pc |-> "idle", follow |-> FALSE, allow |-> FALSE,
     target |-> [l \in Links |-> "broken"], unreadable |-> {}, missing |-> FALSE,
     roots |-> <<>>, stack |-> <<>>, visited |-> {},
     sent |-> [f \in WalkFiles \cup {"X", "F3"} |-> 0], skipped |-> 0, errors |-> 0]

\* sendDiscovered: a path already in visited is not sent again
sendDiscovered(w, f) ==
    IF f \in w.visited
    THEN w
    ELSE [w EXCEPT !.visited = @ \cup {f}, !.sent[f] = @ + 1]

\* replace the frame on top of the stack
setTop(w, frame) ==
    [w EXCEPT !.stack = <<frame>> \o Tail(@)]

\* startDiscoverStage starts on the root paths; the options, the link targets, the
\* directories that cannot be read and whether the first root exists are the inputs
WalkStart ==
    /\ wk.pc = "idle"
    /\ \E follow \in BOOLEAN, allow \in BOOLEAN, t \in [Links -> Targets],
          u \in SUBSET Dirs, missing \in BOOLEAN :
          wk' = [NoWalk EXCEPT !.pc = "walking", !.follow = follow, !.allow = allow,
                               !.target = t, !.unreadable = u, !.missing = missing,
                               !.roots = Roots]

\* startDiscoverStage, the loop body: a root that os.Stat cannot access is logged
\* and passed over, a directory is walked, a file is sent
WalkRoot ==
    /\ wk.pc = "walking"
    /\ wk.stack = <<>>
    /\ wk.roots # <<>>
    /\ LET r == Head(wk.roots)
           w == [wk EXCEPT !.roots = Tail(@)]
       IN IF r = "X" /\ wk.missing
          THEN wk' = [w EXCEPT !.errors = @ + 1]
          ELSE IF r \in Dirs
          THEN wk' = [w EXCEPT !.stack = << <<r>> >>]
          ELSE wk' = sendDiscovered(w, r)

\* the WalkDir callback on the next entry: a directory is descended into, unless
\* it cannot be read (then the callback gets the error: nil skips the directory
\* when AllowIOErrors is set, else the error ends this WalkDir, which walkDirectory
\* logs before it returns); a file is sent; a link is skipped, sent (file target)
\* or walked by a nested walkDirectory call (directory target) unless visited
\* holds the resolved path
WalkEntry ==
    /\ wk.pc = "walking"
    /\ wk.stack # <<>>
    /\ Head(wk.stack) # <<>>
    /\ LET e == Head(Head(wk.stack))
           rest == Tail(Head(wk.stack))
           r == wk.target[e]
       IN IF e \in Dirs
          THEN IF e \in wk.unreadable
               THEN IF wk.allow
                    THEN wk' = setTop([wk EXCEPT !.errors = @ + 1], rest)
                    ELSE wk' = [wk EXCEPT !.errors = @ + 1, !.stack = Tail(@)]
               ELSE wk' = setTop(wk, children(e) \o rest)
          ELSE IF e \in WalkFiles
          THEN wk' = setTop(sendDiscovered(wk, e), rest)
          ELSE IF ~wk.follow
          THEN wk' = setTop([wk EXCEPT !.skipped = @ + 1], rest)
          ELSE IF r = "broken" \/ r \in wk.visited
          THEN wk' = setTop(wk, rest)
          ELSE IF r \in Dirs
          THEN /\ Len(wk.stack) < MaxNest
               /\ wk' = [wk EXCEPT !.stack = << <<r>>, rest >> \o Tail(@)]
          ELSE wk' = setTop(sendDiscovered(wk, r), rest)

\* filepath.WalkDir has no entry left: walkDirectory returns to its caller
WalkReturn ==
    /\ wk.pc = "walking"
    /\ wk.stack # <<>>
    /\ Head(wk.stack) = <<>>
    /\ wk' = [wk EXCEPT !.stack = Tail(@)]

\* startDiscoverStage has no root left: close(p.discovered)
WalkDone ==
    /\ wk.pc = "walking"
    /\ wk.stack = <<>>
    /\ wk.roots = <<>>
    /\ wk' = [wk EXCEPT !.pc = "done"]

----------------------------------------------------------------------------
\* Matcher: the Aho-Corasick prefilter over the common strings and the gated
\* evaluation of the signatures

MaxContent == 4     \* longest file content, in bytes

Alphabet == {"a", "b"}

\* file contents: every byte string up to MaxContent bytes
Contents ==
    UNION {[1..n -> Alphabet] : n \in 0..MaxContent}

\* sigSet.CommonStrings, by index: "ab", "b", "ba"
commonStrTexts ==
    << <<"a", "b">>, <<"b">>, <<"b", "a">> >>

\* sigSet.Signatures: Signature.CommonStrings of each signature id; 4 has none
sigCommonStrings ==
    [s \in 1..4 |-> CASE s = 1 -> <<1>>
                      [] s = 2 -> <<2>>
                      [] s = 3 -> <<1, 3>>
                      [] OTHER -> <<>>]

Sigs == DOMAIN sigCommonStrings

\* the indices a signature names
commonSet(sig) ==
    {sigCommonStrings[sig][k] : k \in 1..Len(sigCommonStrings[sig])}

\* CommonString.SignatureIDs, as LoadSignatureSet builds them
SignatureIDs(idx) ==
    {sig \in Sigs : idx \in commonSet(sig)}

GetCommonStringCount(sig) ==
    Len(sigCommonStrings[sig])

\* compileSignatures: the signatures without common strings
noCommonStrSigs ==
    {sig \in Sigs : GetCommonStringCount(sig) = 0}

\* pattern p lies in content at position i
matchesAt(p, content, i) ==
    /\ i + Len(p) - 1 <= Len(content)
    /\ \A k \in 1..Len(p) : content[i + k - 1] = p[k]

\* literal occurrence (bytes.Contains)
Contains(content, p) ==
    \E i \in 1..Len(content) : matchesAt(p, content, i)

NoMatch ==
    [idx |-> 0, end |-> 0]

\* iter.Next() of the automaton built with LeftMostLongestMatch: the match that
\* starts leftmost at or after pos, the longest of those starting there; the
\* iteration goes on after its end (matches do not overlap)
acIterNext(content, pos) ==
    LET starts == {i \in pos..Len(content) :
                      \E idx \in DOMAIN commonStrTexts :
                          matchesAt(commonStrTexts[idx], content, i)}
    IN IF starts = {}
       THEN NoMatch
       ELSE LET i == CHOOSE x \in starts : \A y \in starts : x <= y
                here == {idx \in DOMAIN commonStrTexts :
                            matchesAt(commonStrTexts[idx], content, i)}
                best == CHOOSE idx \in here :
                            \A j \in here : Len(commonStrTexts[idx]) >= Len(commonStrTexts[j])
            IN [idx |-> best, end |-> i + Len(commonStrTexts[best])]

\* checkCommonStringsAC: count == sig.Signature.GetCommonStringCount()
isPossibleAny(counts, sig) ==
    counts[sig] >= 1
isPossible(counts, sig) ==
    counts[sig] >= 1 /\ counts[sig] = GetCommonStringCount(sig)

NoContext ==
    [pc |-> "idle", content |-> <<>>, matchAll |-> FALSE, pos |-> 1,
     commonStringStates |-> [idx \in DOMAIN commonStrTexts |-> FALSE],
     counts |-> [sig \in Sigs |-> 0], todo |-> {}, possibleSigs |-> {},
     evaluated |-> {}, matches |-> {}]

\* NewMatchContext and Match(content): cleared states, the iteration starts
ACNewContext ==
    /\ ac.pc = "idle"
    /\ \E content \in Contents, matchAll \in BOOLEAN :
          ac' = [NoContext EXCEPT !.pc = "iter", !.content = content,
                                  !.matchAll = matchAll]

\* checkCommonStringsAC, one turn of the loop over iter.Next()
ACIterNext ==
    /\ ac.pc = "iter"
    /\ LET m == acIterNext(ac.content, ac.pos) IN
       IF m = NoMatch
       THEN ac' = [ac EXCEPT !.pc = "collect"]
       ELSE IF ~ac.commonStringStates[m.idx]
            THEN ac' = [ac EXCEPT !.pos = m.end,
                                  !.commonStringStates[m.idx] = TRUE,
                                  !.counts = [sig \in Sigs |->
                                                 IF sig \in SignatureIDs(m.idx)
                                                    /\ sig \notin ac.matches
                                                 THEN @[sig] + 1 ELSE @[sig]]]
            ELSE ac' = [ac EXCEPT !.pos = m.end]

\* checkCommonStringsAC: the signatures whose common strings all matched; MatchChunk
\* then starts with the signatures without common strings
ACCollect ==
    /\ ac.pc = "collect"
    /\ ac' = [ac EXCEPT !.pc = "ungated",
                        !.possibleSigs = {sig \in Sigs : isPossible(ac.counts, sig)},
                        !.todo = noCommonStrSigs]

\* MatchChunk: matchSignature on the next signature of the current loop; the regex
\* finds a match or not; a match ends MatchChunk unless matchAll
ACMatchSignature ==
    /\ ac.pc \in {"ungated", "gated"}
    /\ ac.todo # {}
    /\ \E sig \in ac.todo, hit \in BOOLEAN :
          ac' = [ac EXCEPT !.todo = @ \ {sig},
                           !.evaluated = @ \cup {sig},
                           !.matches = IF hit THEN @ \cup {sig} ELSE @,
                           !.pc = IF hit /\ ~ac.matchAll THEN "done" ELSE @]

\* MatchChunk: a loop is over; after the second one MatchChunk returns
ACLoopEnd ==
    /\ ac.pc \in {"ungated", "gated"}
    /\ ac.todo = {}
    /\ ac' = IF ac.pc = "ungated"
             THEN [ac EXCEPT !.pc = "gated", !.todo = ac.possibleSigs]
             ELSE [ac EXCEPT !.pc = "done"]

\* GetMatches read, Release: the context goes back to the pool
ACRelease ==
    /\ ac.pc = "done"
    /\ ac' = NoContext

----------------------------------------------------------------------------
\* TokenBucketLimiter and ByteRateLimiter

MaxBurst == 2       \* largest burst asked of NewTokenBucketLimiter
chunkSize == 2      \* brl.chunkSize: bytes per token
MaxBytes == 5       \* largest byte count asked of WaitForBytes
MaxRefills == 2     \* ticks of the refill ticker
MaxWaits == 2       \* WaitForBytes calls
MaxTries == 3       \* TryAcquire calls

\* NewTokenBucketLimiter: a burst <= 0 becomes 1
effectiveBurstOffByOne(b) ==
    IF b <= 0 THEN 1 ELSE b + 1
effectiveBurst(b) ==
    IF b <= 0 THEN 1 ELSE b

\* WaitForBytes: tokensNeeded := int(bytes / chunkSize), 0 becomes 1
tokensNeeded(bytes) ==
    IF bytes \div chunkSize = 0 THEN 1 ELSE bytes \div chunkSize

NoCaller ==
    [pc |-> "idle", bytes |-> 0, need |-> 0, got |-> 0, seq |-> 0, result |-> "none"]

NoLimiter ==
    [made |-> FALSE, reqBurst |-> 0, burst |-> 0, tokens |-> 0, done |-> FALSE,
     ctxDone |-> FALSE, waitq |-> <<>>, refilled |-> 0, taken |-> 0, nwaits |-> 0,
     tries |-> <<>>, c |-> [t \in Tasks |-> NoCaller]]

\* the caller has received one more token: the loop of WaitForBytes goes on or ends
granted(c) ==
    IF c.got + 1 = c.need
    THEN [c EXCEPT !.got = @ + 1, !.pc = "idle", !.result = "nil", !.seq = 0]
    ELSE [c EXCEPT !.got = @ + 1, !.pc = "wait"]

\* NewTokenBucketLimiter: the channel of capacity burst is filled
RLNew ==
    /\ ~rl.made
    /\ \E b \in 0..MaxBurst :
          rl' = [NoLimiter EXCEPT !.made = TRUE, !.reqBurst = b,
                                  !.burst = effectiveBurst(b),
                                  !.tokens = effectiveBurst(b)]

\* WaitForBytes(ctx, bytes): entry
RLWaitForBytes(t) ==
    /\ rl.made
    /\ rl.c[t].pc = "idle"
    /\ rl.nwaits < MaxWaits
    /\ \E bytes \in 0..MaxBytes :
          rl' = [rl EXCEPT !.nwaits = @ + 1,
                           !.c[t] = [NoCaller EXCEPT !.pc = "wait", !.bytes = bytes,
                                                     !.need = tokensNeeded(bytes),
                                                     !.seq = rl.nwaits + 1]]

\* limiter.Wait(ctx): the select takes a token that is there, returns an error on a
\* cancelled context or a closed limiter, and otherwise parks the caller on the
\* token channel (behind the callers already parked)
RLWait(t) ==
    /\ rl.c[t].pc = "wait"
    /\ \/ /\ rl.tokens > 0
          /\ rl' = [rl EXCEPT !.tokens = @ - 1, !.taken = @ + 1,
                              !.c[t] = granted(@)]
       \/ /\ rl.ctxDone \/ rl.done
          /\ rl' = [rl EXCEPT !.c[t].pc = "idle", !.c[t].result = "error", !.c[t].seq = 0]
       \/ /\ rl.tokens = 0
          /\ ~(rl.ctxDone \/ rl.done)
          /\ rl' = [rl EXCEPT !.c[t].pc = "blocked", !.waitq = Append(@, t)]

\* refill: the ticker fires; the token goes to the first parked caller, else into
\* the bucket, else (bucket full) it is discarded
RLRefill ==
    /\ rl.made
    /\ ~rl.done
    /\ rl.refilled < MaxRefills
    /\ IF rl.waitq # <<>>
       THEN rl' = [rl EXCEPT !.waitq = Tail(@), !.refilled = @ + 1, !.taken = @ + 1,
                             !.c[Head(rl.waitq)] = granted(@)]
       ELSE IF rl.tokens < rl.burst
            THEN rl' = [rl EXCEPT !.tokens = @ + 1, !.refilled = @ + 1]
            ELSE rl' = [rl EXCEPT !.refilled = @ + 1, !.taken = @ + 1]

\* a parked caller is woken by ctx.Done or by the closed done channel
RLWake(t) ==
    /\ rl.c[t].pc = "blocked"
    /\ rl.ctxDone \/ rl.done
    /\ rl' = [rl EXCEPT !.c[t].pc = "idle", !.c[t].result = "error", !.c[t].seq = 0,
                        !.waitq = SelectSeq(@, LAMBDA u : u # t)]

\* TryAcquire: select with default
RLTryAcquire ==
    /\ rl.made
    /\ Len(rl.tries) < MaxTries
    /\ IF rl.tokens > 0
       THEN rl' = [rl EXCEPT !.tokens = @ - 1, !.taken = @ + 1,
                             !.tries = Append(@, TRUE)]
       ELSE rl' = [rl EXCEPT !.tries = Append(@, FALSE)]

\* the callers' context is cancelled
RLCancel ==
    /\ rl.made
    /\ ~rl.ctxDone
    /\ rl' = [rl EXCEPT !.ctxDone = TRUE]

\* Close: close(done), once
RLClose ==
    /\ rl.made
    /\ ~rl.done
    /\ rl' = [rl EXCEPT !.done = TRUE]

----------------------------------------------------------------------------
\* ResourceMonitor (loadavg_windows.go): NewResourceMonitor, Start, Stop,
\* monitorLoop, collectMetrics, adjustResources.  Memory is in MB, the GC CPU
\* fraction in percent, the load average in tenths, delays and the scheduler
\* latency in milliseconds.

numCPU == 8         \* runtime.NumCPU()
MaxSamples == 2     \* ticks of the monitor's ticker
MaxOps == 4         \* Start and Stop calls
MaxOff == 2         \* metrics of one sample that are off their calm values

targetGCPercent == 10   \* NewResourceMonitor: 0.10

\* the caps a monitor is built with (0 = no cap)
MemoryCaps == {0, 100}
LoadCaps == {0, 10}

\* a sample of an idle process on an idle machine
calmMetrics ==
    [HeapAllocMB |-> 40, GCCPUFraction |-> 5, LoadAvg1 |-> 0,
     SchedLatencyNS |-> 5, NumGoroutines |-> 10]

\* what collectMetrics can sample; the samples followed are at most MaxOff
\* metrics away from their calm values
Metrics ==
    {m \in [HeapAllocMB : {40, 60, 80, 90, 95}, GCCPUFraction : {5, 15, 25},
            LoadAvg1 : {0, 10, 11, 13, 16}, SchedLatencyNS : {5, 20},
            NumGoroutines : {10, numCPU * 100 + 1}] :
        Cardinality({f \in DOMAIN m : m[f] # calmMetrics[f]}) <= MaxOff}

\* m.metrics before the first sample
NoMetrics ==
    [HeapAllocMB |-> 0, GCCPUFraction |-> 0, LoadAvg1 |-> 0,
     SchedLatencyNS |-> 0, NumGoroutines |-> 0]

max(a, b) == IF a >= b THEN a ELSE b
min(a, b) == IF a <= b THEN a ELSE b

\* adjustResources, "Check memory pressure"
memoryPressure(maxMemoryMB, m, s) ==
    IF maxMemoryMB > 0
    THEN IF m.HeapAllocMB * 100 > 90 * maxMemoryMB
         THEN [level |-> max(s.level, 3), workers |-> 1, delay |-> 200]
         ELSE IF m.HeapAllocMB * 100 > 75 * maxMemoryMB
         THEN [level |-> max(s.level, 2), workers |-> max(1, numCPU \div 4),
               delay |-> 100]
         ELSE IF m.HeapAllocMB * 100 > 50 * maxMemoryMB
         THEN [level |-> max(s.level, 1), workers |-> max(1, numCPU \div 2),
               delay |-> 50]
         ELSE s
    ELSE s

\* adjustResources, "Check GC pressure"
gcPressure(m, s) ==
    IF m.GCCPUFraction > targetGCPercent * 2
    THEN [level |-> max(s.level, 2),
          workers |-> min(s.workers, max(1, numCPU \div 4)),
          delay |-> max(s.delay, 100)]
    ELSE IF m.GCCPUFraction > targetGCPercent
    THEN [level |-> max(s.level, 1),
          workers |-> min(s.workers, max(1, numCPU \div 2)),
          delay |-> max(s.delay, 50)]
    ELSE s

\* adjustResources, "Check system load"
systemLoad(maxLoadAvg, m, s) ==
    IF maxLoadAvg > 0 /\ m.LoadAvg1 > 0
    THEN IF m.LoadAvg1 * 10 > 15 * maxLoadAvg
         THEN [level |-> max(s.level, 3), workers |-> 1,
               delay |-> max(s.delay, 200)]
         ELSE IF m.LoadAvg1 * 10 > 12 * maxLoadAvg
         THEN [level |-> max(s.level, 2),
               workers |-> min(s.workers, max(1, numCPU \div 4)),
               delay |-> max(s.delay, 100)]
         ELSE IF m.LoadAvg1 > maxLoadAvg
         THEN [level |-> max(s.level, 1),
               workers |-> min(s.workers, max(1, numCPU \div 2)),
               delay |-> max(s.delay, 50)]
         ELSE s
    ELSE s

schedLatencyAssign(m, s) ==
    IF m.SchedLatencyNS > 10
    THEN [level |-> max(s.level, 2), workers |-> max(1, numCPU \div 2),
          delay |-> max(s.delay, 50)]
    ELSE s

\* adjustResources, "Check scheduler latency"
schedLatency(m, s) ==
    IF m.SchedLatencyNS > 10
    THEN [level |-> max(s.level, 2),
          workers |-> min(s.workers, max(1, numCPU \div 2)),
          delay |-> max(s.delay, 50)]
    ELSE s

\* adjustResources, "Check goroutine count"
goroutineCount(m, s) ==
    IF m.NumGoroutines > numCPU * 100
    THEN [s EXCEPT !.level = max(s.level, 1),
                   !.workers = min(s.workers, max(1, numCPU \div 2))]
    ELSE s

\* adjustResources: newLevel, workers and delayNS for one sample
adjustment(maxMemoryMB, maxLoadAvg, m) ==
    goroutineCount(m,
        schedLatency(m,
            systemLoad(maxLoadAvg, m,
                gcPressure(m,
                    memoryPressure(maxMemoryMB, m,
                        [level |-> 0, workers |-> numCPU, delay |-> 0])))))

notifyWhenThrottled(onAdjust, oldLevel, newLevel) ==
    onAdjust /\ newLevel > 0

\* adjustResources: if m.onAdjust != nil && (newLevel != oldLevel)
notify(onAdjust, oldLevel, newLevel) ==
    onAdjust /\ newLevel # oldLevel

\* a monitor not yet created
NoMonitor ==
    [made |-> FALSE, maxMemoryMB |-> 0, maxLoadAvg |-> 0, onAdjust |-> FALSE,
     metrics |-> NoMetrics, targetWorkers |-> 0, targetDelay |-> 0,
     throttleLevel |-> 0, running |-> FALSE, stopClosed |-> FALSE, loops |-> 0,
     ctxDone |-> FALSE, pc |-> "idle", nops |-> 0, nsamples |-> 0, ncalls |-> 0,
     args |-> <<0, 0>>, dynamicDelay |-> 0]

\* NewResourceMonitor with WithMaxMemoryMB, WithMaxLoadAverage and
\* WithAdjustCallback, each given or not
RMNew ==
    /\ ~rm.made
    /\ \E mem \in MemoryCaps, load \in LoadCaps, fn \in BOOLEAN :
          rm' = [NoMonitor EXCEPT !.made = TRUE, !.maxMemoryMB = mem,
                                  !.maxLoadAvg = load, !.onAdjust = fn,
                                  !.targetWorkers = IF numCPU > 0 THEN numCPU ELSE 4]

\* Start(ctx) with a live context
RMStart ==
    /\ rm.made
    /\ rm.pc = "idle"
    /\ rm.nops < MaxOps
    /\ IF rm.running
       THEN rm' = [rm EXCEPT !.nops = @ + 1]
       ELSE rm' = [rm EXCEPT !.nops = @ + 1, !.running = TRUE, !.loops = @ + 1,
                             !.ctxDone = FALSE]

\* Stop, up to wg.Wait(): closing the closed stopCh is a run-time panic
RMStop ==
    /\ rm.made
    /\ rm.pc = "idle"
    /\ rm.nops < MaxOps
    /\ IF ~rm.running
       THEN rm' = [rm EXCEPT !.nops = @ + 1]
       ELSE IF rm.stopClosed
       THEN rm' = [rm EXCEPT !.nops = @ + 1, !.running = FALSE, !.pc = "panic"]
       ELSE rm' = [rm EXCEPT !.nops = @ + 1, !.running = FALSE,
                             !.stopClosed = TRUE, !.pc = "stopping"]

\* Stop: wg.Wait() returns
RMStopReturn ==
    /\ rm.pc = "stopping"
    /\ rm.loops = 0
    /\ rm' = [rm EXCEPT !.pc = "idle"]

\* monitorLoop: case <-ctx.Done() or case <-m.stopCh, then wg.Done()
RMLoopExit ==
    /\ rm.pc # "panic"
    /\ rm.loops > 0
    /\ rm.ctxDone \/ rm.stopClosed
    /\ rm' = [rm EXCEPT !.loops = @ - 1]

\* PipelineScanner.SetDynamicDelay: the value stored in p.dynamicDelay
SetDynamicDelay(d) == d

\* monitorLoop: case <-ticker.C: collectMetrics, then adjustResources; the callback
\* is the one WithPipelineResourceMonitor sets, which calls SetDynamicDelay
RMTick ==
    /\ rm.pc # "panic"
    /\ rm.loops > 0
    /\ rm.nsamples < MaxSamples
    /\ \E m \in Metrics :
          LET a == adjustment(rm.maxMemoryMB, rm.maxLoadAvg, m)
              called == notify(rm.onAdjust, rm.throttleLevel, a.level)
          IN rm' = [rm EXCEPT !.metrics = m,
                              !.throttleLevel = a.level,
                              !.targetWorkers = IF a.workers > 0 THEN a.workers ELSE @,
                              !.targetDelay = a.delay,
                              !.nsamples = @ + 1,
                              !.ncalls = IF called THEN @ + 1 ELSE @,
                              !.args = IF called THEN <<a.workers, a.delay>> ELSE @,
                              !.dynamicDelay = IF called THEN SetDynamicDelay(a.delay)
                                                         ELSE @]

\* the context given to Start is cancelled
RMCancel ==
    /\ rm.pc # "panic"
    /\ rm.loops > 0
    /\ ~rm.ctxDone
    /\ rm' = [rm EXCEPT !.ctxDone = TRUE]

----------------------------------------------------------------------------
\* One scanner over several Scan calls: GenerateScanID and the processed-hash
\* set.  A path is a sequence of bytes; time is in half seconds.

MaxRuns == 2        \* Scan calls on one scanner
MaxRoots == 3       \* root paths given to one Scan call
NRunFiles == 2      \* files read in one scan run
MaxStamp == 3       \* latest time of a Scan call

\* the root paths a caller may name: "a", "ab", "b"
PathNames == {<<1>>, <<1, 2>>, <<2>>}

\* string comparison a <= b, byte by byte
RECURSIVE strLE(_, _)
strLE(a, b) ==
    IF a = <<>> THEN TRUE
    ELSE IF b = <<>> THEN FALSE
    ELSE IF Head(a) # Head(b) THEN Head(a) < Head(b)
    ELSE strLE(Tail(a), Tail(b))

RECURSIVE insertSorted(_, _)
insertSorted(x, s) ==
    IF s = <<>> THEN <<x>>
    ELSE IF strLE(x, Head(s)) THEN <<x>> \o s
    ELSE <<Head(s)>> \o insertSorted(x, Tail(s))

keepOrder(paths) ==
    paths

\* sorted := copy of paths; sort.Strings(sorted)
RECURSIVE sortStrings(_)
sortStrings(paths) ==
    IF paths = <<>> THEN <<>>
    ELSE insertSorted(Head(paths), sortStrings(Tail(paths)))

\* h.Write([]byte(p)) for each p: the bytes the hash has been given
RECURSIVE writeAll(_)
writeAll(paths) ==
    IF paths = <<>> THEN <<>> ELSE Head(paths) \o writeAll(Tail(paths))

\* timestamp.Format(time.RFC3339): whole seconds
FormatRFC3339(t) ==
    t \div 2

\* GenerateScanID: the digest of the sorted paths' bytes followed by the formatted
\* time; the digest stands for the bytes it was computed from
GenerateScanID(paths, t) ==
    [bytes |-> writeAll(sortStrings(paths)), stamp |-> FormatRFC3339(t)]

NoScanner ==
    [pc |-> "idle", run |-> 0, paths |-> <<>>, t |-> 0,
     scanID |-> GenerateScanID(<<>>, 0), result |-> "none", processedSet |-> {},
     pending |-> 0, read |-> 0, dup |-> 0, seen |-> {}, last |-> 0]

\* Scan(ctx, paths...): no path is a validation error; else the scan ID, fresh
\* stats and channels, and the stages start.  p.processedSet is left as it is.
SRScan ==
    /\ sr.pc = "idle"
    /\ sr.run < MaxRuns
    /\ \E n \in 0..MaxRoots, t \in sr.t..MaxStamp :
          \E paths \in [1..n -> PathNames] :
             IF n = 0
             THEN sr' = [sr EXCEPT !.run = @ + 1, !.t = t, !.paths = paths,
                                   !.result = "validation-error"]
             ELSE sr' = [sr EXCEPT !.run = @ + 1, !.t = t, !.paths = paths,
                                   !.scanID = GenerateScanID(paths, t),
                                   !.result = "ok", !.pc = "scanning",
                                   !.pending = NRunFiles, !.read = 0, !.dup = 0,
                                   !.seen = {}, !.last = 0]

\* the read stage on the next file, whose content hashes to h: a hash in
\* p.processedSet is counted in DuplicatesSkipped, another is marked and counted
\* in Read
SRRead ==
    /\ sr.pc = "scanning"
    /\ sr.pending > 0
    /\ \E h \in Hashes :
          LET s == [sr EXCEPT !.pending = @ - 1, !.last = h, !.seen = @ \cup {h}] IN
          IF h \in sr.processedSet
          THEN sr' = [s EXCEPT !.dup = @ + 1]
          ELSE sr' = [s EXCEPT !.read = @ + 1, !.processedSet = @ \cup {h}]

\* the result channel is closed: the run has ended
SREnd ==
    /\ sr.pc = "scanning"
    /\ sr.pending = 0
    /\ sr' = [sr EXCEPT !.pc = "idle"]

----------------------------------------------------------------------------
\* MatchChunk as a whole, on the Aho-Corasick path and on the regex fallback path

MaxChunks == 2      \* MatchChunk calls on one context
MaxChunkLen == 3    \* longest chunk, in bytes

Chunks ==
    {c \in Contents : Len(c) <= MaxChunkLen}

\* Signature.Rule of each signature id, a literal: "ab", "b", "aba", "aa"
sigRule ==
    [s \in 1..4 |-> CASE s = 1 -> <<"a", "b">>
                      [] s = 2 -> <<"b">>
                      [] s = 3 -> <<"a", "b", "a">>
                      [] OTHER -> <<"a", "a">>]

NoMatchContext ==
    [matches |-> {}, possibleSigs |-> {},
     commonStringStates |-> [idx \in DOMAIN commonStrTexts |-> FALSE]]

\* checkCommonStringsAC, the loop over iter.Next() from position pos on
RECURSIVE acScan(_, _, _, _)
acScan(content, pos, st, matches) ==
    LET m == acIterNext(content, pos) IN
    IF m = NoMatch THEN st
    ELSE IF ~st.commonStringStates[m.idx]
    THEN acScan(content, m.end,
                [commonStringStates |-> [st.commonStringStates EXCEPT ![m.idx] = TRUE],
                 commonStringCounts |->
                     [sig \in Sigs |-> IF sig \in SignatureIDs(m.idx) /\ sig \notin matches
                                       THEN st.commonStringCounts[sig] + 1
                                       ELSE st.commonStringCounts[sig]]],
                matches)
    ELSE acScan(content, m.end, st, matches)

\* checkCommonStringsAC: the counts start at zero in every call
checkCommonStringsAC(c, content) ==
    LET st == acScan(content, 1,
                     [commonStringStates |-> c.commonStringStates,
                      commonStringCounts |-> [sig \in Sigs |-> 0]],
                     c.matches)
    IN [c EXCEPT !.commonStringStates = st.commonStringStates,
                 !.possibleSigs = {sig \in Sigs : isPossible(st.commonStringCounts, sig)}]

\* checkCommonStringsRegex: a common string already observed counts again
checkCommonStringsRegex(c, content) ==
    LET states == [idx \in DOMAIN commonStrTexts |->
                      c.commonStringStates[idx] \/ Contains(content, commonStrTexts[idx])]
        counts == [sig \in Sigs |->
                      IF sig \in c.matches THEN 0
                      ELSE Cardinality({idx \in DOMAIN commonStrTexts :
                                           states[idx] /\ sig \in SignatureIDs(idx)})]
    IN [c EXCEPT !.commonStringStates = states,
                 !.possibleSigs = {sig \in Sigs : isPossible(counts, sig)}]

\* matchSignature: skips a signature already matched, else the rule decides
matchSignature(sig, content, matches) ==
    sig \notin matches /\ Contains(content, sigRule[sig])

\* the signatures whose match a loop of MatchChunk can record when matchAll is off:
\* the first hit in the order of the loop, which for the candidates is the order
\* of a range over a map
firstInLoopOrder(sigs) ==
    sigs

\* MatchChunk: the contexts it can leave behind. The candidates come from the
\* automaton if the matcher has one, else from the regex fallback; the signatures
\* without common strings are tried first, then the candidates
MatchChunk(c, content, matchAll, acAutomaton) ==
    LET c1 == IF acAutomaton THEN checkCommonStringsAC(c, content)
                             ELSE checkCommonStringsRegex(c, content)
        ungated == {sig \in noCommonStrSigs : matchSignature(sig, content, c.matches)}
        gated == {sig \in c1.possibleSigs : matchSignature(sig, content, c.matches)}
    IN IF matchAll THEN {[c1 EXCEPT !.matches = @ \cup ungated \cup gated]}
       ELSE IF ungated # {}
       THEN {[c1 EXCEPT !.matches = @ \cup {sig}] : sig \in firstInLoopOrder(ungated)}
       ELSE IF gated # {}
       THEN {[c1 EXCEPT !.matches = @ \cup {sig}] : sig \in firstInLoopOrder(gated)}
       ELSE {c1}

NoChunked ==
    [pc |-> "idle", matchAll |-> FALSE, chunks |-> <<>>,
     ac |-> NoMatchContext, rx |-> NoMatchContext,
     before |-> NoMatchContext.commonStringStates,
     first |-> {}, repeated |-> FALSE, again |-> {}]

\* NewMatcher and NewMatchContext: one matcher with the automaton and one without,
\* over the same signature set, each with a fresh context
MCNew ==
    /\ mc.pc = "idle"
    /\ \E matchAll \in BOOLEAN :
          mc' = [NoChunked EXCEPT !.pc = "open", !.matchAll = matchAll]

\* MatchChunk(content) on both contexts
MCMatchChunk ==
    /\ mc.pc = "open"
    /\ Len(mc.chunks) < MaxChunks
    /\ \E content \in Chunks :
          \E a \in MatchChunk(mc.ac, content, mc.matchAll, TRUE),
             r \in MatchChunk(mc.rx, content, mc.matchAll, FALSE) :
                mc' = [mc EXCEPT !.chunks = Append(@, content),
                                 !.before = mc.ac.commonStringStates,
                                 !.ac = a, !.rx = r,
                                 !.first = IF mc.chunks = <<>> THEN a.matches ELSE @]

\* Match on another fresh context of the same matcher, with the content of the
\* first call
MCMatchAgain ==
    /\ mc.pc = "open"
    /\ Len(mc.chunks) = 1
    /\ ~mc.repeated
    /\ \E a \in MatchChunk(NoMatchContext, mc.chunks[1], mc.matchAll, TRUE) :
          mc' = [mc EXCEPT !.repeated = TRUE, !.again = a.matches]

\* the contexts are dropped
MCRelease ==
    /\ mc.pc = "open"
    /\ mc.chunks # <<>>
    /\ mc' = NoChunked

----------------------------------------------------------------------------
\* The breaker's atomic fields, one store at a time. Every writer holds cb.mu;
\* State() and Failures() load the fields without it, so the values between two
\* stores of one critical section are values a reader can get

MaxInFlight == 2    \* calls admitted and not yet recorded

\* recordResult: the stores it makes, in order, from the values under the lock
recordResultStores(c, err) ==
    IF err
    THEN <<[field |-> "lastFailureTime", value |-> 1]>> \o
         (IF c.state = CircuitClosed
          THEN <<[field |-> "failures", value |-> c.failures + 1]>> \o
               (IF c.failures + 1 >= threshold
                THEN <<[field |-> "state", value |-> CircuitOpen],
                       [field |-> "failures", value |-> 0]>>
                ELSE <<>>)
          ELSE IF c.state = CircuitHalfOpen
          THEN <<[field |-> "state", value |-> CircuitOpen],
                 [field |-> "successes", value |-> 0]>>
          ELSE <<>>)
    ELSE IF c.state = CircuitClosed
         THEN <<[field |-> "failures", value |-> 0]>>
         ELSE IF c.state = CircuitHalfOpen
         THEN <<[field |-> "successes", value |-> c.successes + 1]>> \o
              (IF c.successes + 1 >= halfOpenMax
               THEN <<[field |-> "state", value |-> CircuitClosed],
                      [field |-> "failures", value |-> 0],
                      [field |-> "successes", value |-> 0]>>
               ELSE <<>>)
         ELSE <<>>

\* allowRequest, under the lock: the state is loaded again before the transition
allowRequestStores(c) ==
    IF c.state = CircuitOpen
    THEN <<[field |-> "state", value |-> CircuitHalfOpen],
           [field |-> "successes", value |-> 0]>>
    ELSE <<>>

ResetStores ==
    <<[field |-> "state", value |-> CircuitClosed],
      [field |-> "failures", value |-> 0],
      [field |-> "successes", value |-> 0]>>

\* NewCircuitBreaker: closed, counters at zero; nobody holds cb.mu
NewBreakerFields ==
    [state |-> CircuitClosed, failures |-> 0, successes |-> 0, lastFailureTime |-> 0,
     mu |-> "free", stores |-> <<>>, inFlight |-> 0, sawOpen |-> 0]

\* allowRequest by a new call: the state is loaded without the lock; closed and
\* half-open admit, open after the timeout goes for the lock
FGAllowRequest ==
    /\ fg.inFlight + fg.sawOpen < MaxInFlight
    /\ IF fg.state = CircuitOpen
       THEN fg' = [fg EXCEPT !.sawOpen = @ + 1]
       ELSE fg' = [fg EXCEPT !.inFlight = @ + 1]

\* allowRequest: cb.mu.Lock() after the timeout was seen to have elapsed
FGAllowLock ==
    /\ fg.mu = "free"
    /\ fg.sawOpen > 0
    /\ fg' = [fg EXCEPT !.mu = "allowRequest", !.stores = allowRequestStores(fg),
                        !.sawOpen = @ - 1, !.inFlight = @ + 1]

\* recordResult: cb.mu.Lock() and the load of the state
FGRecordLock ==
    /\ fg.mu = "free"
    /\ fg.inFlight > 0
    /\ \E err \in BOOLEAN :
          fg' = [fg EXCEPT !.mu = "recordResult", !.stores = recordResultStores(fg, err),
                           !.inFlight = @ - 1]

\* Reset: cb.mu.Lock()
FGResetLock ==
    /\ fg.mu = "free"
    /\ fg' = [fg EXCEPT !.mu = "Reset", !.stores = ResetStores]

\* the next atomic store of the critical section
FGStore ==
    /\ fg.mu # "free"
    /\ fg.stores # <<>>
    /\ fg' = [fg EXCEPT ![Head(fg.stores).field] = Head(fg.stores).value,
                        !.stores = Tail(@)]

\* cb.mu.Unlock()
FGUnlock ==
    /\ fg.mu # "free"
    /\ fg.stores = <<>>
    /\ fg' = [fg EXCEPT !.mu = "free"]

----------------------------------------------------------------------------
\* Version comparison and version ranges of the vulnerability index

\* bounds: version strings of up to MaxVersionLen characters
MaxVersionLen == 3

\* the characters a version string is made of: a prefix letter, two digits, a
\* separator and a letter that is no digit
VersionChars == {"v", "0", "1", ".", "a"}

Versions ==
    UNION {[1..n -> VersionChars] : n \in 0..MaxVersionLen}

VersionAny == <<"*">>

\* the endpoints the ranges of the index are drawn from
RangeEnds ==
    {VersionAny, <<"0">>, <<"1">>, <<"1", ".", "0">>, <<"1", ".", "1">>, <<"v", "1">>,
     <<"1", "1">>, <<"a">>}

isSeparator(c) == c \in {".", "-", "_"}

isDigit(c) == c \in {"0", "1"}

digitValue(c) == IF c = "1" THEN 1 ELSE 0

TrimPrefix(s) == IF Len(s) > 0 /\ s[1] = "v" THEN Tail(s) ELSE s

\* regexp Split(version, -1): the parts between the separators
RECURSIVE split(_, _)
split(s, numStr) ==
    IF s = <<>> THEN <<numStr>>
    ELSE IF isSeparator(Head(s)) THEN <<numStr>> \o split(Tail(s), <<>>)
    ELSE split(Tail(s), Append(numStr, Head(s)))

\* the leading digits of a part, as a number (-1 when there is none)
RECURSIVE leadingNumber(_, _)
leadingNumber(part, acc) ==
    IF part # <<>> /\ isDigit(Head(part))
    THEN leadingNumber(Tail(part), (IF acc < 0 THEN 0 ELSE acc * 10) + digitValue(Head(part)))
    ELSE acc

RECURSIVE numbersOf(_)
numbersOf(parts) ==
    IF parts = <<>> THEN <<>>
    ELSE LET num == leadingNumber(Head(parts), -1)
         IN (IF num >= 0 THEN <<num>> ELSE <<>>) \o numbersOf(Tail(parts))

normalizeVersion(version) == numbersOf(split(TrimPrefix(version), <<>>))

RECURSIVE compareFrom(_, _, _)
compareFrom(parts1, parts2, i) ==
    LET maxLen == IF Len(parts2) > Len(parts1) THEN Len(parts2) ELSE Len(parts1)
        p1 == IF i <= Len(parts1) THEN parts1[i] ELSE 0
        p2 == IF i <= Len(parts2) THEN parts2[i] ELSE 0
    IN IF i > maxLen THEN 0
       ELSE IF p1 < p2 THEN -1
       ELSE IF p1 > p2 THEN 1
       ELSE compareFrom(parts1, parts2, i + 1)

CompareVersionsNeverEqual(v1, v2) ==
    IF compareFrom(normalizeVersion(v1), normalizeVersion(v2), 1) > 0 THEN 1 ELSE -1

CompareVersions(v1, v2) ==
    compareFrom(normalizeVersion(v1), normalizeVersion(v2), 1)

IncludesBothInclusive(vr, version) ==
    /\ vr.FromVersion # VersionAny => CompareVersions(vr.FromVersion, version) <= 0
    /\ vr.ToVersion # VersionAny => CompareVersions(vr.ToVersion, version) >= 0

Includes(vr, version) ==
    IF vr.FromVersion = VersionAny /\ vr.ToVersion = VersionAny THEN TRUE
    ELSE IF /\ vr.FromVersion # VersionAny
            /\ LET cmp == CompareVersions(vr.FromVersion, version)
               IN cmp > 0 \/ (cmp = 0 /\ ~vr.FromInclusive)
         THEN FALSE
    ELSE IF /\ vr.ToVersion # VersionAny
            /\ LET cmp == CompareVersions(vr.ToVersion, version)
               IN cmp < 0 \/ (cmp = 0 /\ ~vr.ToInclusive)
         THEN FALSE
    ELSE TRUE

NoRange == [FromVersion |-> <<>>, FromInclusive |-> FALSE,
            ToVersion |-> <<>>, ToInclusive |-> FALSE]

NoQuery ==
    [pc |-> "idle", v1 |-> <<>>, v2 |-> <<>>, cmp |-> 0, rev |-> 0, self |-> 0,
     versionRange |-> NoRange, version |-> <<>>, included |-> FALSE]

\* CompareVersions called on two strings, both ways round, and on the first
\* string against itself
VICompare ==
    /\ vi.pc = "idle"
    /\ \E a \in Versions, b \in Versions :
          vi' = [vi EXCEPT !.pc = "compared", !.v1 = a, !.v2 = b,
                           !.cmp = CompareVersions(a, b),
                           !.rev = CompareVersions(b, a),
                           !.self = CompareVersions(a, a)]

\* GetVulnerabilities testing one entry's range against the installed version
VIGetVulnerabilities ==
    /\ vi.pc = "idle"
    /\ \E f \in RangeEnds, t \in RangeEnds, fi \in BOOLEAN, ti \in BOOLEAN, v \in Versions :
          LET r == [FromVersion |-> f, FromInclusive |-> fi,
                    ToVersion |-> t, ToInclusive |-> ti]
          IN vi' = [vi EXCEPT !.pc = "tested", !.versionRange = r, !.version = v,
                              !.included = Includes(r, v)]

VIReturn ==
    /\ vi.pc # "idle"
    /\ vi' = NoQuery

InitXVars ==
    /\ rf = NoRead
    /\ wk = NoWalk
    /\ ac = NoContext
    /\ rl = NoLimiter
    /\ rm = NoMonitor
    /\ sr = NoScanner
    /\ vi = NoQuery
    /\ mc = NoChunked
    /\ fg = NewBreakerFields

Init ==
    InitCBVars /\ InitPLVars /\ InitXVars

\* the breaker on its own, called by concurrent tasks
NextCB ==
    \/ (\E t \in Tasks : CBLoadState(t)) /\ UNCHANGED <<plvars, xvars>>
    \/ (\E t \in Tasks : CBLoadLastFailure(t)) /\ UNCHANGED <<plvars, xvars>>
    \/ (\E t \in Tasks : CBCheckTimeout(t)) /\ UNCHANGED <<plvars, xvars>>
    \/ (\E t \in Tasks : CBTryHalfOpen(t)) /\ UNCHANGED <<plvars, xvars>>
    \/ (\E t \in Tasks : CBCallFn(t)) /\ UNCHANGED <<plvars, xvars>>
    \/ (\E t \in Tasks : CBRecordResult(t)) /\ UNCHANGED <<plvars, xvars>>
    \/ Tick /\ UNCHANGED <<plvars, xvars>>

SpecCB ==
    Init /\ [][NextCB]_vars

\* the clock, as far as the pipeline can tell: it is read only by the open
\* breaker's timeout check
PLTick ==
    /\ cb.state = CircuitOpen
    /\ ~timeoutElapsed(cb.lastFailureTime, now)
    /\ Tick
    /\ UNCHANGED <<plvars, xvars>>

Next ==
    \/ Scan
    \/ ScanStart
    \/ Cancel
    \/ Shutdown
    \/ DiscoverWalk
    \/ DiscoverSend
    \/ FilterRecv
    \/ FilterCheck
    \/ FilterSend
    \/ \E w \in Tasks : ReadRecv(w)
    \/ \E w \in Tasks : ReadCheck(w)
    \/ \E w \in Tasks : ReadExecute(w)
    \/ \E w \in Tasks : ReadDedup(w)
    \/ \E w \in Tasks : ReadMark(w)
    \/ \E w \in Tasks : ReadSend(w)
    \/ CloseRead
    \/ \E w \in Tasks : MatchRecv(w)
    \/ \E w \in Tasks : MatchRun(w)
    \/ \E w \in Tasks : MatchSend(w)
    \/ CloseMatched
    \/ ReportRecv
    \/ ReportCheck
    \/ ReportSend
    \/ ConsumerRecv
    \/ PLTick

Spec ==
    Init /\ [][Next]_vars

----------------------------------------------------------------------------
\* one file after the other through filter, readFileContent, match and report
NextRead ==
    \/ RFFilter /\ UNCHANGED <<cbvars, plvars, wk, ac, rl, rm, sr, vi, mc, fg>>
    \/ RFOpen /\ UNCHANGED <<cbvars, plvars, wk, ac, rl, rm, sr, vi, mc, fg>>
    \/ RFGetBuffer /\ UNCHANGED <<cbvars, plvars, wk, ac, rl, rm, sr, vi, mc, fg>>
    \/ RFRead /\ UNCHANGED <<cbvars, plvars, wk, ac, rl, rm, sr, vi, mc, fg>>
    \/ RFMatch /\ UNCHANGED <<cbvars, plvars, wk, ac, rl, rm, sr, vi, mc, fg>>
    \/ RFReport /\ UNCHANGED <<cbvars, plvars, wk, ac, rl, rm, sr, vi, mc, fg>>
    \/ RFNext /\ UNCHANGED <<cbvars, plvars, wk, ac, rl, rm, sr, vi, mc, fg>>

SpecRead ==
    Init /\ [][NextRead]_vars

\* the discovery walk on its own
NextWalk ==
    \/ WalkStart /\ UNCHANGED <<cbvars, plvars, rf, ac, rl, rm, sr, vi, mc, fg>>
    \/ WalkRoot /\ UNCHANGED <<cbvars, plvars, rf, ac, rl, rm, sr, vi, mc, fg>>
    \/ WalkEntry /\ UNCHANGED <<cbvars, plvars, rf, ac, rl, rm, sr, vi, mc, fg>>
    \/ WalkReturn /\ UNCHANGED <<cbvars, plvars, rf, ac, rl, rm, sr, vi, mc, fg>>
    \/ WalkDone /\ UNCHANGED <<cbvars, plvars, rf, ac, rl, rm, sr, vi, mc, fg>>

SpecWalk ==
    Init /\ [][NextWalk]_vars

\* the matcher on its own, one file after the other
NextMatch ==
    \/ ACNewContext /\ UNCHANGED <<cbvars, plvars, rf, wk, rl, rm, sr, vi, mc, fg>>
    \/ ACIterNext /\ UNCHANGED <<cbvars, plvars, rf, wk, rl, rm, sr, vi, mc, fg>>
    \/ ACCollect /\ UNCHANGED <<cbvars, plvars, rf, wk, rl, rm, sr, vi, mc, fg>>
    \/ ACMatchSignature /\ UNCHANGED <<cbvars, plvars, rf, wk, rl, rm, sr, vi, mc, fg>>
    \/ ACLoopEnd /\ UNCHANGED <<cbvars, plvars, rf, wk, rl, rm, sr, vi, mc, fg>>
    \/ ACRelease /\ UNCHANGED <<cbvars, plvars, rf, wk, rl, rm, sr, vi, mc, fg>>

SpecMatch ==
    Init /\ [][NextMatch]_vars

\* the rate limiter on its own, with concurrent callers
NextRL ==
    \/ RLNew /\ UNCHANGED <<cbvars, plvars, rf, wk, ac, rm, sr, vi, mc, fg>>
    \/ (\E t \in Tasks : RLWaitForBytes(t)) /\ UNCHANGED <<cbvars, plvars, rf, wk, ac, rm, sr, vi, mc, fg>>
    \/ (\E t \in Tasks : RLWait(t)) /\ UNCHANGED <<cbvars, plvars, rf, wk, ac, rm, sr, vi, mc, fg>>
    \/ RLRefill /\ UNCHANGED <<cbvars, plvars, rf, wk, ac, rm, sr, vi, mc, fg>>
    \/ (\E t \in Tasks : RLWake(t)) /\ UNCHANGED <<cbvars, plvars, rf, wk, ac, rm, sr, vi, mc, fg>>
    \/ RLTryAcquire /\ UNCHANGED <<cbvars, plvars, rf, wk, ac, rm, sr, vi, mc, fg>>
    \/ RLCancel /\ UNCHANGED <<cbvars, plvars, rf, wk, ac, rm, sr, vi, mc, fg>>
    \/ RLClose /\ UNCHANGED <<cbvars, plvars, rf, wk, ac, rm, sr, vi, mc, fg>>

SpecRL ==
    Init /\ [][NextRL]_vars

\* the resource monitor on its own: one caller of Start and Stop, the
\* monitor's goroutine and its ticker
NextRM ==
    \/ RMNew /\ UNCHANGED <<cbvars, plvars, rf, wk, ac, rl, sr, vi, mc, fg>>
    \/ RMStart /\ UNCHANGED <<cbvars, plvars, rf, wk, ac, rl, sr, vi, mc, fg>>
    \/ RMStop /\ UNCHANGED <<cbvars, plvars, rf, wk, ac, rl, sr, vi, mc, fg>>
    \/ RMStopReturn /\ UNCHANGED <<cbvars, plvars, rf, wk, ac, rl, sr, vi, mc, fg>>
    \/ RMLoopExit /\ UNCHANGED <<cbvars, plvars, rf, wk, ac, rl, sr, vi, mc, fg>>
    \/ RMTick /\ UNCHANGED <<cbvars, plvars, rf, wk, ac, rl, sr, vi, mc, fg>>
    \/ RMCancel /\ UNCHANGED <<cbvars, plvars, rf, wk, ac, rl, sr, vi, mc, fg>>

SpecRM ==
    Init /\ [][NextRM]_vars

\* one scanner used for several scans, one after the other
NextRuns ==
    \/ SRScan /\ UNCHANGED <<cbvars, plvars, rf, wk, ac, rl, rm, vi, mc, fg>>
    \/ SRRead /\ UNCHANGED <<cbvars, plvars, rf, wk, ac, rl, rm, vi, mc, fg>>
    \/ SREnd /\ UNCHANGED <<cbvars, plvars, rf, wk, ac, rl, rm, vi, mc, fg>>

SpecRuns ==
    Init /\ [][NextRuns]_vars

\* the vulnerability index asked to compare versions and to test ranges
NextVuln ==
    \/ VICompare /\ UNCHANGED <<cbvars, plvars, rf, wk, ac, rl, rm, sr, mc, fg>>
    \/ VIGetVulnerabilities /\ UNCHANGED <<cbvars, plvars, rf, wk, ac, rl, rm, sr, mc, fg>>
    \/ VIReturn /\ UNCHANGED <<cbvars, plvars, rf, wk, ac, rl, rm, sr, mc, fg>>

SpecVuln ==
    Init /\ [][NextVuln]_vars

\* contexts fed in chunks
NextChunks ==
    \/ MCNew /\ UNCHANGED <<cbvars, plvars, rf, wk, ac, rl, rm, sr, vi, fg>>
    \/ MCMatchChunk /\ UNCHANGED <<cbvars, plvars, rf, wk, ac, rl, rm, sr, vi, fg>>
    \/ MCMatchAgain /\ UNCHANGED <<cbvars, plvars, rf, wk, ac, rl, rm, sr, vi, fg>>
    \/ MCRelease /\ UNCHANGED <<cbvars, plvars, rf, wk, ac, rl, rm, sr, vi, fg>>

SpecChunks ==
    Init /\ [][NextChunks]_vars

\* the breaker store by store, with Reset
NextCBStores ==
    \/ FGAllowRequest /\ UNCHANGED <<cbvars, plvars, rf, wk, ac, rl, rm, sr, vi, mc>>
    \/ FGAllowLock /\ UNCHANGED <<cbvars, plvars, rf, wk, ac, rl, rm, sr, vi, mc>>
    \/ FGRecordLock /\ UNCHANGED <<cbvars, plvars, rf, wk, ac, rl, rm, sr, vi, mc>>
    \/ FGResetLock /\ UNCHANGED <<cbvars, plvars, rf, wk, ac, rl, rm, sr, vi, mc>>
    \/ FGStore /\ UNCHANGED <<cbvars, plvars, rf, wk, ac, rl, rm, sr, vi, mc>>
    \/ FGUnlock /\ UNCHANGED <<cbvars, plvars, rf, wk, ac, rl, rm, sr, vi, mc>>

SpecCBStores ==
    Init /\ [][NextCBStores]_vars

----------------------------------------------------------------------------
\* Properties of the pipeline (checked under Spec)

\* one step of some stage task or channel closer
StageNext ==
    \/ DiscoverWalk
    \/ DiscoverSend
    \/ FilterRecv
    \/ FilterCheck
    \/ FilterSend
    \/ \E w \in Tasks : ReadRecv(w) \/ ReadCheck(w) \/ ReadExecute(w) \/ ReadDedup(w)
                          \/ ReadMark(w) \/ ReadSend(w)
    \/ CloseRead
    \/ \E w \in Tasks : MatchRecv(w) \/ MatchRun(w) \/ MatchSend(w)
    \/ CloseMatched
    \/ ReportRecv
    \/ ReportCheck
    \/ ReportSend

\* no stage task can take a step and the consumer has taken every result: whatever is
\* not finished now stays unfinished unless the context is cancelled later
Quiescent ==
    /\ scan = "running"
    /\ chans.res = <<>>
    /\ ~ENABLED StageNext

\* the scan ran to its end without cancel or Shutdown and the consumer has every result
ScanCompleted ==
    /\ scan = "running"
    /\ StageTasksDone
    /\ closed.res
    /\ chans.res = <<>>
    /\ ~ctxDone
    /\ ~shutdown

Outstanding ==
    pool.gets - pool.puts

\* C1: of the files with one content hash at most one is sent on the read channel
\* (and so reported); the others are counted as duplicates
C1_OneItemPerHash ==
    \A h \in Hashes : forwarded[h] <= 1

\* C2: after a cancel, once every stage task has exited, no pooled buffer is
\* outstanding, items left in the read channel included
C2_NoBufferLeftAfterCancel ==
    (ctxDone /\ ~shutdown /\ scan = "running" /\ StageTasksDone /\ closed.r /\ closed.m)
        => Outstanding = 0

\* C3: every acquired buffer is released exactly once: the buffers not yet released
\* are exactly those held by live items (no release without a held buffer, none
\* twice), no item holds a buffer outside the read and match stages, and a scan
\* that runs to completion leaves none unreleased
C3_BufferReleasedOnce ==
    /\ pool.puts <= pool.gets
    /\ Outstanding = Cardinality({i \in Files : item[i].buf})
    /\ \A i \in Files : item[i].buf =>
          \/ \E w \in Tasks : ritem[w] = i /\ rpc[w] \in {"dedup", "mark", "send"}
          \/ \E k \in 1..Len(chans.r) : chans.r[k] = i
          \/ \E w \in Tasks : mitem[w] = i /\ mpc[w] = "match"
    /\ ScanCompleted => Outstanding = 0

\* C3 witness: a completed scan in which one buffer was released after matching, one
\* by the read stage for a duplicate and one by the read stage for a failed read
C3_Witness ==
    /\ ScanCompleted
    /\ pool.gets = 3
    /\ pool.puts = 3
    /\ stats.Matched = 1
    /\ stats.DuplicatesSkipped = 1
    /\ stats.FilesErrored = 1

\* C4: no stage task blocks forever: when nothing can move any more (the consumer
\* having received everything), every stage task has exited and every channel,
\* the result channel included, is closed
C4_AllStagesExit ==
    Quiescent => /\ StageTasksDone
                 /\ closed.d /\ closed.f /\ closed.r /\ closed.m /\ closed.res

\* C5: after Shutdown with the context never cancelled every stage task exits
\* (Shutdown returns nil) and the in-flight items' buffers are released
C5_ShutdownDrains ==
    (Quiescent /\ shutdown /\ ~ctxDone) => (ShutdownResult = "nil" /\ Outstanding = 0)

\* C10: every file whose read failed or was refused yields a result carrying the
\* error and no matches
C10_FailedFileReported ==
    ScanCompleted =>
        \A i \in failed : \E r \in received : r.path = i /\ r.err # "none" /\ ~r.matches

----------------------------------------------------------------------------
\* Properties of the circuit breaker (checked under SpecCB)

\* number of entries at the end of the log recorded in state st with result err
RECURSIVE trailing(_, _, _)
trailing(lg, st, err) ==
    IF lg = <<>>
    THEN 0
    ELSE LET x == lg[Len(lg)] IN
         IF x.st = st /\ x.err = err
         THEN 1 + trailing(SubSeq(lg, 1, Len(lg) - 1), st, err)
         ELSE 0

\* this step is caller t's recordResult
Records(t) ==
    cpc[t] = "record" /\ cpc'[t] = "idle"

\* this step is the start of a call by t
Arrives(t) ==
    cpc[t] = "idle" /\ cpc'[t] # "idle"

\* C6: the breaker moves from open to half-open only when at least the timeout has
\* elapsed since the most recently recorded failure
C6_HalfOpenOnlyAfterTimeout ==
    [][(cb.state = CircuitOpen /\ cb'.state = CircuitHalfOpen)
          => timeoutElapsed(cb.lastFailureTime, now)]_vars

\* C7: in the closed state every call reaches the callable, a recorded success sets
\* the failure counter to 0, and the breaker opens exactly in the step that records
\* the threshold-th consecutive failure
C7_ClosedState ==
    [][/\ \A t \in Tasks :
            /\ (Arrives(t) /\ cb.state = CircuitClosed) => cpc'[t] = "fn"
            /\ (Records(t) /\ cb.state = CircuitClosed /\ ~cerr[t])
                  => (cb'.state = CircuitClosed /\ cb'.failures = 0)
            /\ (Records(t) /\ cb.state = CircuitClosed /\ cerr[t])
                  => cb'.lastFailureTime = now
       /\ (cb.state = CircuitClosed /\ cb'.state # CircuitClosed)
             <=> /\ cb.state = CircuitClosed
                 /\ cb'.state = CircuitOpen
                 /\ \E t \in Tasks : Records(t) /\ cerr[t]
                 /\ trailing(log, CircuitClosed, TRUE) = threshold - 1
       /\ (cb.state = CircuitClosed /\ trailing(log, CircuitClosed, TRUE) = threshold - 1
             /\ \E t \in Tasks : Records(t) /\ cerr[t])
             => cb'.state = CircuitOpen]_vars

\* C7 witness: the breaker has just opened on consecutive failures that followed a
\* failure and a success recorded in the closed state
C7_Witness ==
    /\ cb.state = CircuitOpen
    /\ Len(log) >= threshold + 2
    /\ trailing(log, CircuitClosed, TRUE) = threshold
    /\ log[1].st = CircuitClosed /\ log[1].err
    /\ log[2].st = CircuitClosed /\ ~log[2].err

\* a failure was recorded at time x
FailureAt(x) ==
    \E k \in 1..Len(log) : log[k].err /\ log[k].at = x

\* C8: a call that finds the breaker open (opened by recorded failures) is refused
\* with the circuit-open error, its callable not invoked, when less than the timeout
\* has elapsed since the last failure it read, and is admitted and invokes the
\* callable once the timeout has elapsed
C8_OpenState ==
    \A t \in Tasks :
        LET o == cobs[t] IN
        /\ o.viaOpen => \E k \in 1..Len(log) : log[k].err
        /\ o.checked =>
              /\ FailureAt(o.chkLf)
              /\ (o.result = "circuit-open") <=> (o.chkAt - o.chkLf < timeout)
              /\ (cpc[t] = "lock" \/ o.admitted) <=> (o.chkAt - o.chkLf >= timeout)
        /\ o.result = "circuit-open" => (o.checked /\ ~o.invoked /\ ~o.admitted)
        /\ (o.admitted /\ cpc[t] \in {"record", "idle"}) => o.invoked
        /\ o.invoked => o.admitted

\* C8 witness: one call was refused while the breaker was open and another, arriving
\* after the timeout, went through the open-state check and invoked the callable
C8_Witness ==
    \E t, u \in Tasks :
        /\ cobs[t].result = "circuit-open"
        /\ cobs[u].viaOpen /\ cobs[u].checked /\ cobs[u].invoked

\* C9: in the half-open state a recorded failure reopens the breaker with the failure
\* time set to now (calls are refused again for the timeout), and the halfOpenMax-th
\* success since entering half-open closes it with both counters at 0
C9_HalfOpenState ==
    [][\A t \in Tasks :
          (Records(t) /\ cb.state = CircuitHalfOpen) =>
              IF cerr[t]
              THEN /\ cb'.state = CircuitOpen
                   /\ cb'.lastFailureTime = now
                   /\ ~allowRequest(cb', now).ok
              ELSE IF trailing(log, CircuitHalfOpen, FALSE) + 1 = halfOpenMax
                   THEN /\ cb'.state = CircuitClosed
                        /\ cb'.failures = 0
                        /\ cb'.successes = 0
                   ELSE /\ cb'.state = CircuitHalfOpen
                        /\ cb'.successes = trailing(log, CircuitHalfOpen, FALSE) + 1]_vars

\* C9 witness: half-open was left once by a failure and, later, by the closing success
C9_Witness ==
    /\ cb.state = CircuitClosed
    /\ \E k \in 1..Len(log) : log[k].st = CircuitHalfOpen /\ log[k].err
    /\ trailing(log, CircuitHalfOpen, FALSE) = halfOpenMax

----------------------------------------------------------------------------
\* Properties of readFileContent (checked under SpecRead)

\* C11: for a file of any size that reaches the read stage the read completes without
\* fault, and the content holds min(file size, content limit) bytes, fewer only when
\* the file holds fewer
C11_ReadExactOrShort ==
    /\ rf.pc # "panic"
    /\ rf.pc = "done" =>
          LET want == IF rf.limit > 0 /\ rf.limit < rf.size THEN rf.limit ELSE rf.size
          IN rf.n = IF rf.avail < want THEN rf.avail ELSE want

----------------------------------------------------------------------------
\* Properties of the discovery walk (checked under SpecWalk)

\* C12: with follow-symlinks enabled the walk of a finite tree terminates, also
\* when a link points to an ancestor directory: no chain of nested walkDirectory
\* calls is longer than the number of directories (a longer chain walks a
\* directory inside its own walk, which then repeats without end)
C12_WalkTerminates ==
    wk.follow => Len(wk.stack) <= Cardinality(Dirs)

----------------------------------------------------------------------------
\* Properties of the matcher (checked under SpecMatch)

\* the prefilter pass over the file is complete
Prefiltered ==
    ac.pc \in {"ungated", "gated", "done"}

\* C13: after the prefilter pass a common string is marked observed if and only if
\* it occurs in the content, and a gated signature is a candidate if and only if
\* all of its common strings occur
C13_ObservedIffOccurs ==
    Prefiltered =>
        /\ \A idx \in DOMAIN commonStrTexts :
              ac.commonStringStates[idx] <=> Contains(ac.content, commonStrTexts[idx])
        /\ \A sig \in Sigs \ noCommonStrSigs :
              sig \in ac.possibleSigs
                 <=> \A idx \in commonSet(sig) : Contains(ac.content, commonStrTexts[idx])

\* C14: a signature with common strings is evaluated, and so can have a match
\* result, only if the content contains every one of its common strings
C14_GatedOnlyIfAllOccur ==
    \A sig \in Sigs \ noCommonStrSigs :
        (sig \in ac.evaluated \/ sig \in ac.matches \/ sig \in ac.possibleSigs)
            => \A idx \in commonSet(sig) : Contains(ac.content, commonStrTexts[idx])

\* C14 witness: in one file the signature gated by "ab" was evaluated and matched
\* while the signature gated by "ab" and "ba" was not evaluated, "ba" being absent
C14_Witness ==
    /\ ac.pc = "done"
    /\ ac.matchAll
    /\ 1 \in ac.matches
    /\ 3 \notin ac.evaluated
    /\ Contains(ac.content, commonStrTexts[1])
    /\ ~Contains(ac.content, commonStrTexts[3])

----------------------------------------------------------------------------
\* Properties of the rate limiter (checked under SpecRL)

\* C15: a successful wait for n bytes has consumed ceil(n / chunkSize) tokens
C15_CeilTokens ==
    \A t \in Tasks :
        rl.c[t].result = "nil" =>
            rl.c[t].got = (rl.c[t].bytes + chunkSize - 1) \div chunkSize

\* a WaitForBytes call in progress
Waiting(c) ==
    c.pc \in {"wait", "blocked"}

\* C16: a token goes to a waiting request only if no request issued earlier is
\* still waiting for tokens
C16_GrantedInRequestOrder ==
    [][\A t \in Tasks :
          (Waiting(rl.c[t]) /\ rl'.c[t].got > rl.c[t].got) =>
              \A u \in Tasks : Waiting(rl.c[u]) => rl.c[u].seq >= rl.c[t].seq]_vars

\* C17: a limiter created with burst b >= 1 holds b tokens at first and never more
\* than b; TryAcquire succeeds exactly when a token is there (it never parks the
\* caller), so that with no refill tick and no waiter the first b calls succeed
\* and every later one fails
C17_BurstAndTryAcquire ==
    /\ rl.made =>
          /\ rl.tokens >= 0
          /\ rl.tokens <= rl.burst
          /\ rl.reqBurst >= 1 => rl.burst = rl.reqBurst
          /\ (rl.refilled = 0 /\ rl.taken = 0) => rl.tokens = rl.burst
          /\ (rl.refilled = 0 /\ rl.nwaits = 0) =>
                \A k \in 1..Len(rl.tries) : rl.tries[k] <=> k <= rl.burst
    /\ \A k \in 1..Len(rl.tries) :
          rl.tries[k] => rl.taken >= Cardinality({j \in 1..k : rl.tries[j]})

\* C17 witness: burst 2, no refill, no waiter: two acquisitions succeeded, the third
\* failed
C17_Witness ==
    /\ rl.reqBurst = 2
    /\ rl.refilled = 0
    /\ rl.nwaits = 0
    /\ rl.tries = <<TRUE, TRUE, FALSE>>

----------------------------------------------------------------------------
\* Properties of the resource monitor (checked under SpecRM)

\* C18: a monitor built with no memory cap and no load cap keeps its throttle
\* level at 0 and never invokes the adjust callback
C18_NoCapsNoThrottle ==
    (rm.made /\ rm.maxMemoryMB = 0 /\ rm.maxLoadAvg = 0) =>
        /\ rm.throttleLevel = 0
        /\ rm.ncalls = 0

\* C19: with a callback set, a sample invokes it (once) exactly when the sample's
\* throttle level differs from the level before it, and the callback receives the
\* worker target and the delay that this sample computed and stored
C19_CallbackIffLevelChanged ==
    [][(rm.onAdjust /\ rm'.nsamples = rm.nsamples + 1) =>
          /\ rm'.ncalls \in {rm.ncalls, rm.ncalls + 1}
          /\ (rm'.ncalls = rm.ncalls + 1) <=> (rm'.throttleLevel # rm.throttleLevel)
          /\ (rm'.ncalls = rm.ncalls + 1) =>
                /\ rm'.args = <<rm'.targetWorkers, rm'.targetDelay>>
                /\ rm'.args[1] =
                      adjustment(rm.maxMemoryMB, rm.maxLoadAvg, rm'.metrics).workers
                /\ rm'.args[2] =
                      adjustment(rm.maxMemoryMB, rm.maxLoadAvg, rm'.metrics).delay]_vars

\* C19 witness: two samples with a callback set; the one that raised the level to
\* 2 invoked the callback with (2 workers, 100 ms), the other one, which left the
\* level as it was, did not invoke it
C19_Witness ==
    /\ rm.onAdjust
    /\ rm.nsamples = 2
    /\ rm.ncalls = 1
    /\ rm.throttleLevel = 2
    /\ rm.args = <<2, 100>>

\* C20: no Start or Stop call faults and at most one monitorLoop exists
C20_StartStopIdempotent ==
    /\ rm.pc # "panic"
    /\ rm.loops <= 1

\* C21: after a sample the published level is the largest level of the rules the
\* sample triggers (0 if none), the worker target the smallest of their worker
\* caps (the CPU count if none) and the delay target the largest of their delays
\* (0 if none); a rule's level, cap and delay are what its check yields on its own
C21_MaxLevelMinWorkersMaxDelay ==
    rm.nsamples > 0 =>
        LET none == [level |-> 0, workers |-> numCPU, delay |-> 0]
            m == rm.metrics
            rules == {memoryPressure(rm.maxMemoryMB, m, none), gcPressure(m, none),
                      systemLoad(rm.maxLoadAvg, m, none), schedLatency(m, none),
                      goroutineCount(m, none)}
        IN /\ \E r \in rules : rm.throttleLevel = r.level
           /\ \A r \in rules : rm.throttleLevel >= r.level
           /\ \E r \in rules : rm.targetWorkers = r.workers
           /\ \A r \in rules : rm.targetWorkers <= r.workers
           /\ \E r \in rules : rm.targetDelay = r.delay
           /\ \A r \in rules : rm.targetDelay >= r.delay

\* C21 witness: a sample that triggers the memory rule of level 3 and the
\* scheduler-latency rule of level 2
C21_Witness ==
    /\ rm.nsamples > 0
    /\ rm.maxMemoryMB = 100
    /\ rm.metrics.HeapAllocMB = 95
    /\ rm.metrics.SchedLatencyNS = 20
    /\ rm.throttleLevel = 3
    /\ rm.targetWorkers = 1
    /\ rm.targetDelay = 200

\* C22: with a memory cap, a sample whose heap is at or above 90% of the cap
\* yields level 3, worker target 1 and a delay of at least 200 ms
C22_MemoryAt90Percent ==
    (rm.nsamples > 0 /\ rm.maxMemoryMB > 0
        /\ rm.metrics.HeapAllocMB * 100 >= 90 * rm.maxMemoryMB) =>
        /\ rm.throttleLevel = 3
        /\ rm.targetWorkers = 1
        /\ rm.targetDelay >= 200

----------------------------------------------------------------------------
\* Further properties of the pipeline (checked under Spec)

\* C24: when a scan that was neither cancelled nor shut down has ended, Reported =
\* Matched = Read and Read = Filtered - FilesErrored - DuplicatesSkipped
C24_CountersBalance ==
    (scan = "running" /\ StageTasksDone /\ ~ctxDone /\ ~shutdown) =>
        /\ stats.Reported = stats.Matched
        /\ stats.Matched = stats.Read
        /\ stats.Read = stats.Filtered - stats.FilesErrored - stats.DuplicatesSkipped

\* C24 witness: an uncancelled scan has ended after one file failed to read, one was
\* a duplicate and one was reported
C24_Witness ==
    /\ scan = "running" /\ StageTasksDone /\ ~ctxDone /\ ~shutdown
    /\ stats.Filtered = 3
    /\ stats.FilesErrored = 1
    /\ stats.DuplicatesSkipped = 1
    /\ stats.Reported = 1

\* C27: once p.shutdown is set it stays set and no shutdown action is repeated, a
\* Scan call that checks it is rejected, and no Scan call starts the stage tasks
C27_ShutdownBlocksScan ==
    [][/\ shutdown => (shutdown' /\ rlClosed' = rlClosed)
       /\ (shutdown /\ scan = "new" /\ scan' # "new") => scan' = "rejected"
       /\ (scan # "running" /\ scan' = "running") => ~shutdown]_vars

\* C28: when the result channel is closed on a cancelled scan, the last result of
\* the stream carries the context-cancelled error
C28_FinalCancelResult ==
    [][(ctxDone /\ ~closed.res /\ closed'.res) =>
          IF chans'.res # <<>>
          THEN chans'.res[Len(chans'.res)].err = "context-cancelled"
          ELSE \E r \in received' : r.err = "context-cancelled"]_vars

----------------------------------------------------------------------------
\* Properties of one file's way through the stages (checked under SpecRead)

\* C23: a file of exactly ContentLimit bytes is not skipped as too large; a file
\* one byte larger is counted in FilesSkipped and a result carrying the
\* file-too-large error is emitted for it
C23_SizeLimitBoundary ==
    (rf.pc = "skipped" /\ rf.limit > 0) =>
        /\ rf.size = rf.limit => rf.err # "file-too-large"
        /\ (rf.size = rf.limit + 1 /\ rf.err = "file-too-large") =>
              (rf.skipped = 1 /\ rf.emitted)

\* C25: the ScannedBytes of a result is the number of content bytes read and matched
C25_ScannedBytes ==
    rf.pc = "reported" => rf.scanned = rf.n

----------------------------------------------------------------------------
\* Further properties of the discovery walk (checked under SpecWalk)

\* C29: with AllowIOErrors off, no file is discovered once a path could not be
\* accessed, in the same root or in a later one; with AllowIOErrors on, the walk
\* goes on after the error and ends with every root taken
C29_ErrorStopsDiscovery ==
    [][/\ (wk.pc = "walking" /\ ~wk.allow /\ wk.errors > 0) => wk'.sent = wk.sent
       /\ (wk.allow /\ wk'.errors > wk.errors) => wk'.pc = "walking"]_vars

----------------------------------------------------------------------------
\* Properties of a scanner over several scans (checked under SpecRuns)

\* C26: every Scan call starts with an empty processed-hash set, so a file is
\* skipped as a duplicate only if its content was met earlier in the same run
C26_ProcessedSetPerRun ==
    [][/\ (sr'.run > sr.run /\ sr'.result = "ok") => sr'.processedSet = {}
       /\ sr'.dup > sr.dup => sr'.last \in sr.seen]_vars

\* C30: the scan ID of a run is the scan ID of every reordering of its root paths
\* at the same time
C30_ScanIDPermutationInvariant ==
    sr.result = "ok" =>
        \A q \in Permutations(1..Len(sr.paths)) :
            GenerateScanID([i \in 1..Len(sr.paths) |-> sr.paths[q[i]]], sr.t) = sr.scanID

\* C30 witness: a scan of three different roots given in unsorted order
C30_Witness ==
    /\ sr.result = "ok"
    /\ sr.paths = << <<2>>, <<1, 2>>, <<1>> >>
    /\ sr.scanID.bytes = <<1, 1, 2, 2>>

\* C31: for the roots of a scan, a different start time gives a different scan ID
C31_ScanIDDiffersByTime ==
    sr.result = "ok" =>
        \A t \in 0..MaxStamp :
            t # sr.t => GenerateScanID(sr.paths, t) # sr.scanID

----------------------------------------------------------------------------
\* Properties of version comparison and version ranges (checked under SpecVuln)

sign(n) == IF n > 0 THEN 1 ELSE IF n < 0 THEN -1 ELSE 0

\* C32: comparing a version string with itself gives 0, and comparing two
\* strings the other way round gives the opposite sign
C32_CompareReflexiveAntisymmetric ==
    vi.pc = "compared" =>
        /\ vi.self = 0
        /\ sign(vi.cmp) = -sign(vi.rev)

\* C32 witness: "1.0" and "v1" compare equal both ways round, and "0.1" is
\* below "1a"
C32_Witness ==
    /\ vi.pc = "compared"
    /\ \/ vi.v1 = <<"1", ".", "0">> /\ vi.v2 = <<"v", "1">> /\ vi.cmp = 0 /\ vi.rev = 0
       \/ vi.v1 = <<"0", ".", "1">> /\ vi.v2 = <<"1", "a">> /\ vi.cmp = -1 /\ vi.rev = 1

\* C33: a range includes a version exactly when the version is above its lower
\* end (or at it, if inclusive, or the end is the wildcard) and below its upper end
\* (or at it, if inclusive, or the end is the wildcard)
C33_RangeIncludes ==
    vi.pc = "tested" =>
        LET r == vi.versionRange
            v == vi.version
        IN vi.included <=>
              /\ \/ r.FromVersion = VersionAny
                 \/ CompareVersions(r.FromVersion, v) < 0
                 \/ CompareVersions(r.FromVersion, v) = 0 /\ r.FromInclusive
              /\ \/ r.ToVersion = VersionAny
                 \/ CompareVersions(v, r.ToVersion) < 0
                 \/ CompareVersions(v, r.ToVersion) = 0 /\ r.ToInclusive

\* C33 witness: the range from 1.0 inclusive to 1.1 exclusive tested against its
\* upper end, which it leaves out
C33_Witness ==
    /\ vi.pc = "tested"
    /\ vi.versionRange = [FromVersion |-> <<"1", ".", "0">>, FromInclusive |-> TRUE,
                          ToVersion |-> <<"1", ".", "1">>, ToInclusive |-> FALSE]
    /\ vi.version = <<"1", ".", "1">>
    /\ ~vi.included

----------------------------------------------------------------------------
\* Properties of the pipeline's pools and counters (checked under Spec)

\* C34: the match contexts taken from the context pool and not put back are never
\* more than the match workers
C34_ContextsCheckedOut ==
    pool.ctxGets - pool.ctxPuts <= Workers

----------------------------------------------------------------------------
\* Properties of the monitor wired to the pipeline (checked under SpecRM)

----------------------------------------------------------------------------
\* Properties of chunked matching (checked under SpecChunks)

\* C36: on the Aho-Corasick path a signature with common strings, not matched
\* yet, is a candidate in the chunk in which the last of its common strings is
\* marked observed, and the regex fallback path selects the same candidates
\* whenever both paths have marked the same common strings
C36_ChunkedCandidates ==
    (mc.pc = "open" /\ mc.chunks # <<>>) =>
        /\ \A sig \in Sigs \ (noCommonStrSigs \cup mc.ac.matches) :
              (/\ \A idx \in commonSet(sig) : mc.ac.commonStringStates[idx]
               /\ \E idx \in commonSet(sig) : ~mc.before[idx])
                  => sig \in mc.ac.possibleSigs
        /\ mc.ac.commonStringStates = mc.rx.commonStringStates
              => mc.ac.possibleSigs = mc.rx.possibleSigs

ReadersHolding ==
    {w \in Tasks : ritem[w] # NoItem /\ item[ritem[w]].buf}

MatchersHolding ==
    {w \in Tasks : mitem[w] # NoItem /\ item[mitem[w]].buf}

\* C38: the buffers checked out are at most one per reader, plus the items in the
\* read channel, which holds no more than its capacity, plus one per matcher; so
\* at most Workers + capacity + Workers
C38_BuffersBounded ==
    /\ Outstanding <= Cardinality(ReadersHolding) + Len(chans.r)
                         + Cardinality(MatchersHolding)
    /\ Len(chans.r) <= bufSize
    /\ Outstanding <= Workers + bufSize + Workers

\* C38 witness: three buffers are out, one with a reader, one in the full read
\* channel and one with a matcher
C38_Witness ==
    /\ Outstanding = 3
    /\ Cardinality(ReadersHolding) = 1
    /\ Len(chans.r) = bufSize
    /\ Cardinality(MatchersHolding) = 1

\* C40: Reported <= Matched <= Read <= Filtered <= Discovered at every moment,
\* and no step lowers one of these counters
C40_CountersOrderedMonotone ==
    [][/\ stats'.Reported <= stats'.Matched
       /\ stats'.Matched <= stats'.Read
       /\ stats'.Read <= stats'.Filtered
       /\ stats'.Filtered <= stats'.Discovered
       /\ \A c \in {"Reported", "Matched", "Read", "Filtered", "Discovered"} :
             stats'[c] >= stats[c]]_vars

\* C40 witness: all three files were discovered and filtered, two read, one
\* matched and none reported yet
C40_Witness ==
    /\ stats.Discovered = 3
    /\ stats.Filtered = 3
    /\ stats.Read = 2
    /\ stats.Matched = 1
    /\ stats.Reported = 0

----------------------------------------------------------------------------
\* Properties of the breaker's atomic fields (checked under SpecCBStores)

====
